---- MODULE Spec2Model ----
(***************************************************************************)
(* mackerel-cloudwatch-forwarder: the forwarder's invocation               *)
(* (Forwarder.ForwardMetrics), its pending buffer, the label codec and the *)
(* delivery client's retry loop.                                           *)
(*                                                                         *)
(* Go strings are modelled as sequences of one-character strings, so that  *)
(* the label codec slices and searches them the way the code does.         *)
(* Times are unix seconds.                                                 *)
(***************************************************************************)
EXTENDS Integers, Sequences, FiniteSets, TLC

----------------------------------------------------------------------------
(* Bounds of the model                                                     *)

\* pages one fetch reads at most
MaxPages == 2
\* rows a page carries at most
MaxRows == 1
\* datapoints a row carries at most
MaxPoints == 1
\* labels with a default value in one invocation at most
MaxDefaults == 1
\* exchanges a scripted server distinguishes before it repeats itself
MaxScript == 1
\* invocations of ForwardMetrics in one behaviour
MaxInvocations == 2
\* values in the batch of a Post call on its own
MaxBatch == 2
\* pieces a label string handed to ParseLabel is made of
MaxPieces == 5
\* characters of a field of a Label handed to Label.String
MaxFieldLen == 2
\* specs in a list handed to ToMetricDataQuery
MaxSpecs == 3
\* calls of Append and Drop on the two collections, one after the other
MaxAppends == 3
\* callers that call ForwardMetrics on one Forwarder at the same time
MaxConcurrent == 2
\* rows of one page of a scripted fetch
MaxFetchRows == 2
\* tokens of the longest metric token list of a spec
MaxTokens == 24
\* specs of a list of specs with long token lists
MaxLongSpecs == 2

----------------------------------------------------------------------------
(* Program constants                                                       *)

\* retry.Policy.MaxCount set by NewMackerelClient
MaxCount == 10
\* now.Add(-6 * time.Hour), in seconds
RetentionSeconds == 21600
\* time.Minute, in seconds
MinuteSeconds == 60
\* start.Add(-2 * time.Minute), in seconds
IngestionDelaySeconds == 120
\* http.StatusTooManyRequests
StatusTooManyRequests == 429
\* len(lastMetric): namespace, metric name and ten dimensions
MetricSlots == 22
\* MetricStat.Period of every query
Period == 60

----------------------------------------------------------------------------
(* Strings                                                                 *)

KwService == <<"s", "e", "r", "v", "i", "c", "e">>
KwHost == <<"h", "o", "s", "t">>

\* a variant that finds the last c in s
LastIndexByte(s, c) ==
    IF \E i \in 1..Len(s) : s[i] = c
    THEN (CHOOSE i \in 1..Len(s) :
            s[i] = c /\ \A j \in (i + 1)..Len(s) : s[j] # c) - 1
    ELSE -1

\* strings.IndexByte(s, c): the 0-based index of the first c in s, or -1
IndexByte(s, c) ==
    IF \E i \in 1..Len(s) : s[i] = c
    THEN (CHOOSE i \in 1..Len(s) : s[i] = c /\ \A j \in 1..(i - 1) : s[j] # c) - 1
    ELSE -1

\* the Go slice expression s[lo:hi] (0-based, hi exclusive)
Slice(s, lo, hi) == SubSeq(s, lo + 1, hi)

----------------------------------------------------------------------------
(* label.go                                                                *)

Label(service, hostID, metricName) ==
    [Service |-> service, HostID |-> hostID, MetricName |-> metricName]

NoLabel == Label(<<>>, <<>>, <<>>)

\* a variant that takes every unknown id name for "host"
ParseLabelDefaultHost(s) ==
    LET idx == IndexByte(s, ":") IN
    IF idx <= 0 THEN [err |-> TRUE, label |-> NoLabel]
    ELSE
      LET l == Slice(s, 0, idx)
          name == Slice(s, idx + 1, Len(s))
          idx2 == IndexByte(l, "=")
      IN
      IF idx2 <= 0 THEN [err |-> TRUE, label |-> NoLabel]
      ELSE
        LET t == Slice(l, 0, idx2)
            id == Slice(l, idx2 + 1, Len(l))
        IN
        IF t = KwService THEN [err |-> FALSE, label |-> Label(id, <<>>, name)]
        ELSE [err |-> FALSE, label |-> Label(<<>>, id, name)]

\* ParseLabel: [err |-> BOOLEAN, label |-> Label]
ParseLabel(s) ==
    LET idx == IndexByte(s, ":") IN
    IF idx <= 0 THEN [err |-> TRUE, label |-> NoLabel]
    ELSE IF idx = Len(s) THEN [err |-> TRUE, label |-> NoLabel]
    ELSE
      LET l == Slice(s, 0, idx)
          name == Slice(s, idx + 1, Len(s))
          idx2 == IndexByte(l, "=")
      IN
      IF idx2 <= 0 THEN [err |-> TRUE, label |-> NoLabel]
      ELSE IF idx2 = Len(s) THEN [err |-> TRUE, label |-> NoLabel]
      ELSE
        LET t == Slice(l, 0, idx2)
            id == Slice(l, idx2 + 1, Len(l))
        IN
        IF t = KwService THEN [err |-> FALSE, label |-> Label(id, <<>>, name)]
        ELSE IF t = KwHost THEN [err |-> FALSE, label |-> Label(<<>>, id, name)]
        ELSE [err |-> TRUE, label |-> NoLabel]

\* Label.String
LabelString(l) ==
    (IF l.Service # <<>> THEN KwService \o <<"=">> \o l.Service
     ELSE IF l.HostID # <<>> THEN KwHost \o <<"=">> \o l.HostID
     ELSE <<>>)
    \o <<":">> \o l.MetricName

----------------------------------------------------------------------------
(* Metric values and the two collections (serviceMetricsType,              *)
(* hostMetricsType)                                                        *)

ServiceMetricValue(name, time, value) ==
    [Name |-> name, Time |-> time, Value |-> value]

HostMetricValue(hostID, name, time, value) ==
    [HostID |-> hostID, Name |-> name, Time |-> time, Value |-> value]

\* a nil or empty serviceMetricsType
EmptyServiceMetrics == [s \in {} |-> <<>>]

\* m[service] of a Go map: the zero value (a nil slice) for a missing key
MapGet(m, service) == IF service \in DOMAIN m THEN m[service] ELSE <<>>

\* m[service] = metrics
MapSet(m, service, metrics) ==
    [s \in DOMAIN m \cup {service} |-> IF s = service THEN metrics ELSE m[s]]

\* delete(m, service)
MapDelete(m, service) == [s \in DOMAIN m \ {service} |-> m[s]]

\* the index at which the search loop of Append stops, given the indices of
\* the entries with the key of the new value; 0 when the loop runs out
FirstIndex(hits) ==
    IF hits # {} THEN CHOOSE i \in hits : \A j \in hits : i <= j ELSE 0

\* a variant that never looks for the key
ServiceAppendAlways(m, service, v) ==
    MapSet(m, service, Append(MapGet(m, service), v))

\* serviceMetricsType.Append
ServiceAppend(m, service, v) ==
    LET metrics == MapGet(m, service)
        SameKey(e) == e.Name = v.Name /\ e.Time = v.Time
        i == FirstIndex({j \in 1..Len(metrics) : SameKey(metrics[j])})
    IN IF i # 0
       THEN MapSet(m, service, [metrics EXCEPT ![i] = v])
       ELSE MapSet(m, service, Append(metrics, v))

\* a variant that also drops the entries whose time is unix itself
KeepAfter(metrics, unix) ==
    LET Keep(e) == e.Time > unix IN SelectSeq(metrics, Keep)

\* the filter loop shared by both Drop methods: the entries at or after unix
KeepFrom(metrics, unix) ==
    LET Keep(e) == e.Time >= unix IN SelectSeq(metrics, Keep)

\* the cnt++ branch of that loop: how many entries are older than unix
CountOlder(metrics, unix) ==
    Cardinality({i \in 1..Len(metrics) : ~(metrics[i].Time >= unix)})

\* a variant that stores the filtered slice also when it is empty
RECURSIVE ServiceDropKeysKeepEmpty(_, _, _)
ServiceDropKeysKeepEmpty(acc, keys, unix) ==
    IF keys = {} THEN acc
    ELSE LET service == CHOOSE s \in keys : TRUE
             metrics == acc.m[service]
         IN ServiceDropKeysKeepEmpty(
                [m |-> MapSet(acc.m, service, KeepFrom(metrics, unix)),
                 cnt |-> acc.cnt + CountOlder(metrics, unix)],
                keys \ {service}, unix)

\* the range loop of serviceMetricsType.Drop over the services in keys
RECURSIVE ServiceDropKeys(_, _, _)
ServiceDropKeys(acc, keys, unix) ==
    IF keys = {} THEN acc
    ELSE LET service == CHOOSE s \in keys : TRUE
             metrics == acc.m[service]
             mm == KeepFrom(metrics, unix)
             next == IF Len(mm) > 0 THEN MapSet(acc.m, service, mm)
                     ELSE MapDelete(acc.m, service)
         IN ServiceDropKeys([m |-> next,
                             cnt |-> acc.cnt + CountOlder(metrics, unix)],
                            keys \ {service}, unix)

\* serviceMetricsType.Drop: [m |-> the map afterwards, cnt |-> the count]
ServiceDrop(m, unix) ==
    IF DOMAIN m = {} THEN [m |-> m, cnt |-> 0]
    ELSE ServiceDropKeys([m |-> m, cnt |-> 0], DOMAIN m, unix)

\* a variant that never looks for the key
HostAppendAlways(m, v) == Append(m, v)

\* hostMetricsType.Append
HostAppend(m, v) ==
    LET SameKey(e) == e.HostID = v.HostID /\ e.Name = v.Name /\ e.Time = v.Time
        i == FirstIndex({j \in 1..Len(m) : SameKey(m[j])})
    IN IF i # 0 THEN [m EXCEPT ![i] = v] ELSE Append(m, v)

\* hostMetricsType.Drop: [m |-> the slice afterwards, cnt |-> the count]
HostDrop(m, unix) ==
    IF Len(m) = 0 THEN [m |-> m, cnt |-> 0]
    ELSE [m |-> KeepFrom(m, unix), cnt |-> CountOlder(m, unix)]

----------------------------------------------------------------------------
(* mackerel.go: the delivery client                                        *)

\* Go error values: [kind, StatusCode, Message, netTemporary]
\*   "nil"        no error
\*   "Error"      forwarder.Error{StatusCode, Message}
\*   "transport"  the error of http.Client.Do; netTemporary is the value of
\*                its Temporary() method
\*   "permanent"  an error wrapped by retry.MarkPermanent
\*   "context"    ctx.Err() of an expired or cancelled context
\*   other kinds  errors of the fetch and configuration phases
ErrorValue(kind, code, message, netTemporary) ==
    [kind |-> kind, StatusCode |-> code, Message |-> message,
     netTemporary |-> netTemporary]

NilError == ErrorValue("nil", 0, "", FALSE)
ContextError == ErrorValue("context", 0, "", TRUE)

\* What one HTTP exchange can come to: [type, code, body, temporary]
\*   "status"     the server answered with status code and body
\*   "transport"  http.Client.Do failed; temporary is what the error's
\*                Temporary() method reports
\*   "marshal"    json.Marshal of the payload failed, nothing was sent
\*   "deadline"   the context expired before the attempt
Exchange(type, code, body, temporary) ==
    [type |-> type, code |-> code, body |-> body, temporary |-> temporary]

StatusCodes == {200, 204, 302, 403, 429, 500, 503}
Bodies == {"forbidden", "busy"}

Responses ==
    {Exchange("status", c, b, FALSE) : c \in StatusCodes, b \in Bodies}
    \cup {Exchange("transport", 0, "", t) : t \in BOOLEAN}
    \cup {Exchange("marshal", 0, "", FALSE)}

DeadlineExchange == Exchange("deadline", 0, "", FALSE)

\* handleError
handleError(resp) == ErrorValue("Error", resp.code, resp.body, FALSE)

\* MackerelClient.postJSON, given what the exchange comes to
postJSON(resp) ==
    IF resp.type = "marshal" THEN ErrorValue("permanent", 0, "", FALSE)
    ELSE IF resp.type = "transport"
    THEN ErrorValue("transport", 0, "", resp.temporary)
    ELSE IF resp.code < 200 \/ resp.code >= 300 THEN handleError(resp)
    ELSE NilError

\* a variant that takes only server errors for temporary
ErrorTemporaryServerOnly(e) == e.StatusCode >= 500

\* a variant that takes every error status for temporary
ErrorTemporaryAnyStatus(e) == e.StatusCode >= 400

\* Error.Temporary
ErrorTemporary(e) ==
    e.StatusCode >= 500 \/ e.StatusCode = StatusTooManyRequests

\* a variant in which only forwarder.Error has the method
HasTemporaryOwnError(e) == e.kind = "Error"

\* whether the error value has a Temporary() bool method
HasTemporary(e) == e.kind \in {"Error", "transport", "context"}

\* the value of that method
Temporary(e) ==
    IF e.kind = "Error" THEN ErrorTemporary(e) ELSE e.netTemporary

\* the classes of exchanges the history counts
Classes == {"2xx", "5xx", "429", "otherStatus", "transportTemporary",
            "transportPermanent", "marshal"}

ClassOf(resp) ==
    IF resp.type = "marshal" THEN "marshal"
    ELSE IF resp.type = "transport"
    THEN (IF resp.temporary THEN "transportTemporary" ELSE "transportPermanent")
    ELSE IF resp.code >= 200 /\ resp.code < 300 THEN "2xx"
    ELSE IF resp.code >= 500 /\ resp.code < 600 THEN "5xx"
    ELSE IF resp.code = 429 THEN "429"
    ELSE "otherStatus"

\* a variant without the check for an empty batch
PostStartUnchecked(batchLen) ==
    [batchLen |-> batchLen, count |-> 0, posts |-> 0, err |-> NilError,
     done |-> FALSE, ret |-> NilError,
     hist |-> [c \in Classes |-> 0], last |-> DeadlineExchange]

\* The state of one PostServiceMetricValues / PostHostMetricValues call:
\*   count  iterations of RetryPolicy.Do started
\*   posts  HTTP POST requests sent
\*   err    the error of the last iteration
\*   done   the call has returned,  ret  its return value
\*   hist   how many exchanges of each class the call has seen
\*   last   the last exchange
\* A call with an empty batch returns nil before the retry loop.
PostStart(batchLen) ==
    [batchLen |-> batchLen, count |-> 0, posts |-> 0, err |-> NilError,
     done |-> (batchLen = 0), ret |-> NilError,
     hist |-> [c \in Classes |-> 0], last |-> DeadlineExchange]

\* a variant that allows one iteration more
ContinueOneMore(st, expired) == ~expired /\ st.count <= MaxCount

\* Retrier.Continue: another iteration is allowed
Continue(st, expired) == ~expired /\ st.count < MaxCount

\* one iteration of the loop of RetryPolicy.Do: f() and the checks after it
DoAttempt(st, resp) ==
    LET err == postJSON(resp)
        seen == [st EXCEPT !.count = @ + 1,
                           !.posts = IF resp.type = "marshal" THEN @ ELSE @ + 1,
                           !.hist[ClassOf(resp)] = @ + 1,
                           !.last = resp,
                           !.err = err]
    IN IF err = NilError THEN [seen EXCEPT !.done = TRUE, !.ret = NilError]
       ELSE IF err.kind = "permanent" THEN [seen EXCEPT !.done = TRUE, !.ret = err]
       ELSE IF HasTemporary(err) /\ ~Temporary(err)
       THEN [seen EXCEPT !.done = TRUE, !.ret = err]
       ELSE seen

\* a variant that never reports the context's error
DoStopLastError(st, expired) == [st EXCEPT !.done = TRUE, !.ret = st.err]

\* the exit of RetryPolicy.Do when Continue reports false
DoStop(st, expired) ==
    [st EXCEPT !.done = TRUE, !.ret = IF expired THEN ContextError ELSE st.err]

\* A whole call against a scripted server: the exchanges of script in order,
\* the last one repeated for as long as the loop goes on.
RECURSIVE PostRun(_, _, _)
PostRun(st, script, expired) ==
    IF st.done THEN [st |-> st, expired |-> expired]
    ELSE IF Head(script).type = "deadline" \/ expired
    THEN [st |-> DoStop(st, TRUE), expired |-> TRUE]
    ELSE IF ~Continue(st, expired)
    THEN [st |-> DoStop(st, expired), expired |-> expired]
    ELSE PostRun(DoAttempt(st, Head(script)),
                 IF Len(script) > 1 THEN Tail(script) ELSE script,
                 expired)

----------------------------------------------------------------------------
(* The world of the model                                                  *)

SvcA == <<"a">>
SvcB == <<"b">>
HostH == <<"h">>
MetricM == <<"m">>

\* destinations and metric names that compiled queries carry
ValidLabels == {Label(SvcA, <<>>, MetricM), Label(SvcB, <<>>, MetricM),
                Label(<<>>, HostH, MetricM)}

\* label strings a result row may carry: the encoded labels, a string
\* without separator and a label with an empty id
RawLabels == {LabelString(l) : l \in ValidLabels}
             \cup {<<"x">>, KwService \o <<"=", ":", "m">>}

\* The values the provider reports for a window in the n-th invocation: a
\* statistic changes between two fetches of the same window, not within one.
ReportedValues(n) == {n}
\* the value of a spec's "default" field
DefaultValue == 0

\* the wall clock at the first invocation
StartClock == 630
\* the seconds between two invocations, when they are not in the same second
Advances == {MinuteSeconds, RetentionSeconds}

\* Forwarder.APIURL: unset, or a string url.Parse rejects
APIURLs == {"", "invalid"}

VARIABLES
    clock,                  \* the wall clock, unix seconds
    APIURL,                 \* Forwarder.APIURL
    svcmackerel,            \* Forwarder.svcmackerel
    muPending,              \* Forwarder.muPending
    pendingServiceMetrics,  \* Forwarder.pendingServiceMetrics
    pendingHostMetrics,     \* Forwarder.pendingHostMetrics
    inv,                    \* the locals and position of the invocation
    fctx,                   \* the forwardContext of the invocation
    tasks,                  \* the goroutines of publishMetric
    ctxDone,                \* the invocation's context has expired
    post,                   \* one Post call on its own (SpecPost)
    call,                   \* one call of a function on its own: what was
                            \* called, its arguments and its results
    mu,                     \* Forwarder.mu: the invocations that hold it
    invs                    \* the invocations that run concurrently on
                            \* one Forwarder (SpecConcurrent)

vars == <<clock, APIURL, svcmackerel, muPending, pendingServiceMetrics,
          pendingHostMetrics, inv, fctx, tasks, ctxDone, post, call, mu, invs>>

forwarderVars == <<clock, APIURL, svcmackerel, muPending,
                   pendingServiceMetrics, pendingHostMetrics, inv, fctx,
                   tasks, ctxDone, mu, invs>>

NilClient == [set |-> FALSE, BaseURL |-> "default"]

\* the zero forwardContext
ZeroContext ==
    [start |-> 0, end |-> 0,
     serviceMetrics |-> EmptyServiceMetrics, hostMetrics |-> <<>>,
     mu |-> {},
     failedServiceMetrics |-> EmptyServiceMetrics, failedHostMetrics |-> <<>>]

\* the maps from label string to default value an invocation may carry
EmptyDefaults == [l \in {} |-> 0]

\* The invocation:
\*   pc        "idle", "config", "lock", "fetch", "publish", "wait",
\*             "returned"
\*   n         invocations started so far
\*   now       time.Now() of forwardMetrics
\*   defaults  the defaults ToMetricDataQuery returned
\*   seen      the labels that came with at least one value
\*   more      paginator.HasMorePages()
\*   pages     pages read
\*   err       the local err of forwardMetrics after getMetricsData
\*   exit      where the invocation left forwardMetrics: "parse", "config"
\*             or "end"
\*   ret       what ForwardMetrics returned
ZeroInvocation ==
    [pc |-> "idle", n |-> 0, now |-> 0, defaults |-> EmptyDefaults,
     seen |-> {}, more |-> FALSE, pages |-> 0, err |-> NilError,
     exit |-> "none", ret |-> NilError]

NoTasks == [d \in {} |-> 0]

\* no function has been called on its own
NoCall == [op |-> "none"]

\* no invocation runs next to the one of inv
NoInvocations == <<>>

Init ==
    /\ clock = StartClock
    /\ APIURL \in APIURLs
    /\ svcmackerel = NilClient
    /\ muPending = "free"
    /\ pendingServiceMetrics = EmptyServiceMetrics
    /\ pendingHostMetrics = <<>>
    /\ inv = ZeroInvocation
    /\ fctx = ZeroContext
    /\ tasks = NoTasks
    /\ ctxDone = FALSE
    /\ post = PostStart(0)
    /\ call = NoCall
    /\ mu = {}
    /\ invs = NoInvocations

----------------------------------------------------------------------------
(* forwarder.go: getMetricsData                                            *)

\* the sequences over S of length at most n
SeqsUpTo(S, n) == UNION {[1..k -> S] : k \in 0..n}

\* time.Time.Truncate(d) of a unix time
Truncate(t, d) == t - (t % d)

\* one Append of getMetricsData: to the service map, to the host slice, or
\* to neither when the label names no destination
AppendValue(acc, label, t, v) ==
    IF label.Service # <<>>
    THEN [acc EXCEPT !.serviceMetrics =
            ServiceAppend(@, label.Service,
                          ServiceMetricValue(label.MetricName, t, v))]
    ELSE IF label.HostID # <<>>
    THEN [acc EXCEPT !.hostMetrics =
            HostAppend(@, HostMetricValue(label.HostID, label.MetricName, t, v))]
    ELSE acc

\* the loop over result.Timestamps
RECURSIVE AppendPoints(_, _, _)
AppendPoints(acc, label, points) ==
    IF points = <<>> THEN acc
    ELSE AppendPoints(AppendValue(acc, label, Head(points).t, Head(points).v),
                      label, Tail(points))

\* a variant that passes over a row whose label does not decode
RECURSIVE ProcessRowsSkipBad(_, _)
ProcessRowsSkipBad(acc, rows) ==
    IF rows = <<>> THEN acc
    ELSE LET result == Head(rows)
             marked == IF Len(result.points) > 0
                       THEN [acc EXCEPT !.seen = @ \cup {result.label}]
                       ELSE acc
             parsed == ParseLabel(result.label)
         IN IF parsed.err THEN ProcessRowsSkipBad(marked, Tail(rows))
            ELSE ProcessRowsSkipBad(
                     AppendPoints(marked, parsed.label, result.points),
                     Tail(rows))

\* the loop over page.MetricDataResults; acc is
\* [serviceMetrics, hostMetrics, seen, failed]
RECURSIVE ProcessRows(_, _)
ProcessRows(acc, rows) ==
    IF rows = <<>> THEN acc
    ELSE LET result == Head(rows)
             marked == IF Len(result.points) > 0
                       THEN [acc EXCEPT !.seen = @ \cup {result.label}]
                       ELSE acc
             parsed == ParseLabel(result.label)
         IN IF parsed.err THEN [marked EXCEPT !.failed = TRUE]
            ELSE ProcessRows(AppendPoints(marked, parsed.label, result.points),
                             Tail(rows))

\* a variant that leaves the defaults out
ApplyDefaultsSkipped(acc, defaults, order, start) == acc

\* a variant that does not look a label up in seen
RECURSIVE ApplyDefaultsIgnoreSeen(_, _, _, _)
ApplyDefaultsIgnoreSeen(acc, defaults, order, start) ==
    IF order = <<>> THEN acc
    ELSE LET l == Head(order)
             parsed == ParseLabel(l)
         IN IF parsed.err THEN [acc EXCEPT !.failed = TRUE]
            ELSE ApplyDefaultsIgnoreSeen(
                     AppendValue(acc, parsed.label, start, defaults[l]),
                     defaults, Tail(order), start)

\* the loop over defaults, in the order the map iteration takes
RECURSIVE ApplyDefaults(_, _, _, _)
ApplyDefaults(acc, defaults, order, start) ==
    IF order = <<>> THEN acc
    ELSE LET l == Head(order)
             parsed == ParseLabel(l)
         IN IF l \in acc.seen
            THEN ApplyDefaults(acc, defaults, Tail(order), start)
            ELSE IF parsed.err THEN [acc EXCEPT !.failed = TRUE]
            ELSE ApplyDefaults(AppendValue(acc, parsed.label, start, defaults[l]),
                               defaults, Tail(order), start)

\* the orders in which a range loop may visit the keys of a map
Orders(keys) ==
    {o \in [1..Cardinality(keys) -> keys] :
        \A i, j \in 1..Cardinality(keys) : i # j => o[i] # o[j]}

\* the working set of the invocation, as the accumulator of the loops above
Accumulator ==
    [serviceMetrics |-> fctx.serviceMetrics, hostMetrics |-> fctx.hostMetrics,
     seen |-> inv.seen, failed |-> FALSE]

\* the rows a page may carry in the n-th invocation, whose window starts at
\* start
Rows(start, n) ==
    [label : RawLabels,
     points : SeqsUpTo([t : {start}, v : ReportedValues(n)], MaxPoints)]

\* the defaults ToMetricDataQuery may return
DefaultsChoices ==
    UNION {[ls -> {DefaultValue}] :
             ls \in {x \in SUBSET {LabelString(l) : l \in ValidLabels} :
                       Cardinality(x) <= MaxDefaults}}

----------------------------------------------------------------------------
(* forwarder.go: ForwardMetrics, forwardMetrics                            *)

\* ForwardMetrics is called, elapsed seconds after the call before: the
\* context gets its timeout, forwardMetrics parses the payload and reads the
\* clock.
Invoke(elapsed, valid, defaults) ==
    /\ inv.pc \in {"idle", "returned"}
    /\ inv.n < MaxInvocations
    /\ inv.n = 0 => elapsed = 0
    /\ clock' = clock + elapsed
    /\ ctxDone' = FALSE
    /\ fctx' = ZeroContext
    /\ tasks' = NoTasks
    /\ IF valid
       THEN inv' = [ZeroInvocation EXCEPT !.pc = "config", !.n = inv.n + 1,
                                          !.now = clock', !.defaults = defaults]
       ELSE /\ defaults = EmptyDefaults
            /\ inv' = [ZeroInvocation EXCEPT
                         !.pc = "returned", !.n = inv.n + 1, !.exit = "parse",
                         !.ret = ErrorValue("parse", 0, "", FALSE)]
    /\ UNCHANGED <<mu, invs, APIURL, svcmackerel, muPending, pendingServiceMetrics,
                   pendingHostMetrics, post, call>>

\* Forwarder.mackerel: [client |-> f.svcmackerel afterwards, err |-> BOOLEAN]
mackerel(client, url, keyFound) ==
    IF client.set THEN [client |-> client, err |-> FALSE]
    ELSE IF ~keyFound THEN [client |-> client, err |-> TRUE]
    ELSE LET made == [set |-> TRUE, BaseURL |-> "default"]
         IN IF url # ""
            THEN IF url = "invalid" THEN [client |-> made, err |-> TRUE]
                 ELSE [client |-> [made EXCEPT !.BaseURL = "custom"],
                       err |-> FALSE]
            ELSE [client |-> made, err |-> FALSE]

\* a variant that notes the error of f.mackerel and goes on
ConfigureAndGoOn(keyFound) ==
    /\ inv.pc = "config"
    /\ LET r == mackerel(svcmackerel, APIURL, keyFound)
       IN /\ svcmackerel' = r.client
          /\ inv' = IF r.err
                    THEN [inv EXCEPT !.pc = "lock", !.exit = "config",
                                     !.ret = ErrorValue("config", 0, "", FALSE)]
                    ELSE [inv EXCEPT !.pc = "lock"]
    /\ UNCHANGED <<mu, invs, clock, APIURL, muPending, pendingServiceMetrics,
                   pendingHostMetrics, fctx, tasks, ctxDone, post, call>>

\* client, err := f.mackerel(ctx); keyFound is whether apiKey finds a key
Configure(keyFound) ==
    /\ inv.pc = "config"
    /\ LET r == mackerel(svcmackerel, APIURL, keyFound)
       IN /\ svcmackerel' = r.client
          /\ inv' = IF r.err
                    THEN [inv EXCEPT !.pc = "returned", !.exit = "config",
                                     !.ret = ErrorValue("config", 0, "", FALSE)]
                    ELSE [inv EXCEPT !.pc = "lock"]
    /\ UNCHANGED <<mu, invs, clock, APIURL, muPending, pendingServiceMetrics,
                   pendingHostMetrics, fctx, tasks, ctxDone, post, call>>

\* a variant that does not truncate
WindowStartNotTruncated(now) == now - IngestionDelaySeconds

\* the start of the queried window
WindowStart(now) == Truncate(now, MinuteSeconds) - IngestionDelaySeconds

\* f.muPending.Lock(), the drop of old metrics, the window and the new
\* forwardContext; getMetricsData up to its paginator
Begin ==
    /\ inv.pc = "lock"
    /\ muPending = "free"
    /\ muPending' = "held"
    /\ LET dropped == HostDrop(pendingHostMetrics, inv.now - RetentionSeconds)
           start == WindowStart(inv.now)
       IN /\ pendingHostMetrics' = dropped.m
          /\ fctx' = [ZeroContext EXCEPT
                        !.start = start,
                        !.end = start + MinuteSeconds,
                        !.serviceMetrics = pendingServiceMetrics,
                        !.hostMetrics = dropped.m]
    /\ inv' = [inv EXCEPT !.pc = "fetch", !.more = TRUE, !.seen = {},
                          !.pages = 0]
    /\ UNCHANGED <<mu, invs, clock, APIURL, svcmackerel, pendingServiceMetrics,
                   tasks, ctxDone, post, call>>

\* a variant that returns on a fetch error
AfterFetchChecked(err) == IF err # NilError THEN "returned" ELSE "publish"

\* where forwardMetrics goes on after getMetricsData returned err
AfterFetch(err) == "publish"

\* the return of getMetricsData: its locals are gone, err is set
FetchReturn(err) ==
    [inv EXCEPT !.defaults = EmptyDefaults, !.seen = {}, !.more = FALSE,
                !.pages = 0, !.err = err, !.pc = AfterFetch(err)]

\* f.pendingServiceMetrics after an Append to the working set: the same map
\* when the working set started from a map, still nil when it started from nil
SharedMap(working) ==
    IF DOMAIN pendingServiceMetrics # {} THEN working ELSE pendingServiceMetrics

\* a variant that throws away what the pages before brought
NextPageErrorDiscards(expired) ==
    /\ inv.pc = "fetch"
    /\ inv.more
    /\ ctxDone' = expired
    /\ inv' = FetchReturn(IF expired THEN ContextError
                          ELSE ErrorValue("retrieval", 0, "", FALSE))
    /\ fctx' = [fctx EXCEPT !.serviceMetrics = EmptyServiceMetrics,
                            !.hostMetrics = <<>>]
    /\ UNCHANGED <<mu, invs, clock, APIURL, svcmackerel, muPending,
                   pendingServiceMetrics, pendingHostMetrics, tasks,
                   post, call>>

\* a variant that runs the defaults loop before it returns the error
NextPageErrorDefaults(expired) ==
    /\ inv.pc = "fetch"
    /\ inv.more
    /\ ctxDone' = expired
    /\ inv' = FetchReturn(IF expired THEN ContextError
                          ELSE ErrorValue("retrieval", 0, "", FALSE))
    /\ LET order == CHOOSE o \in Orders(DOMAIN inv.defaults) : TRUE
           acc == ApplyDefaults(Accumulator, inv.defaults, order, fctx.start)
       IN fctx' = [fctx EXCEPT !.serviceMetrics = acc.serviceMetrics,
                               !.hostMetrics = acc.hostMetrics]
    /\ UNCHANGED <<mu, invs, clock, APIURL, svcmackerel, muPending,
                   pendingServiceMetrics, pendingHostMetrics, tasks,
                   post, call>>

\* paginator.NextPage fails: the service reports an error, or the context
\* has expired
NextPageError(expired) ==
    /\ inv.pc = "fetch"
    /\ inv.more
    /\ ctxDone' = expired
    /\ inv' = FetchReturn(IF expired THEN ContextError
                          ELSE ErrorValue("retrieval", 0, "", FALSE))
    /\ UNCHANGED <<mu, invs, clock, APIURL, svcmackerel, muPending,
                   pendingServiceMetrics, pendingHostMetrics, fctx, tasks,
                   post, call>>

\* paginator.NextPage returns a page, and the loop over its rows
NextPage(rows, more) ==
    /\ inv.pc = "fetch"
    /\ inv.more
    /\ inv.pages < MaxPages
    /\ more => inv.pages + 1 < MaxPages
    /\ LET acc == ProcessRows(Accumulator, rows)
           err == ErrorValue("label", 0, "", FALSE)
       IN /\ fctx' = [fctx EXCEPT !.serviceMetrics = acc.serviceMetrics,
                                  !.hostMetrics = acc.hostMetrics]
          /\ pendingServiceMetrics' = SharedMap(acc.serviceMetrics)
          /\ inv' = IF acc.failed THEN FetchReturn(err)
                    ELSE [inv EXCEPT !.seen = acc.seen, !.pages = @ + 1,
                                     !.more = more]
    /\ UNCHANGED <<mu, invs, clock, APIURL, svcmackerel, muPending, pendingHostMetrics,
                   tasks, ctxDone, post, call>>

\* no more pages: the loop over defaults and the return of getMetricsData
FetchDefaults(order) ==
    /\ inv.pc = "fetch"
    /\ ~inv.more
    /\ LET acc == ApplyDefaults(Accumulator, inv.defaults, order, fctx.start)
           err == IF acc.failed THEN ErrorValue("label", 0, "", FALSE)
                  ELSE NilError
       IN /\ fctx' = [fctx EXCEPT !.serviceMetrics = acc.serviceMetrics,
                                  !.hostMetrics = acc.hostMetrics]
          /\ pendingServiceMetrics' = SharedMap(acc.serviceMetrics)
          /\ inv' = FetchReturn(err)
    /\ UNCHANGED <<mu, invs, clock, APIURL, svcmackerel, muPending, pendingHostMetrics,
                   tasks, ctxDone, post, call>>

----------------------------------------------------------------------------
(* forwarder.go: publishMetric                                             *)

ServiceTask(service) == [kind |-> "service", service |-> service]
HostTask == [kind |-> "host", service |-> <<>>]

\* a variant that starts the host goroutine for an empty host batch too
TasksOfAlwaysHost(serviceMetrics, hostMetrics) ==
    {ServiceTask(s) : s \in DOMAIN serviceMetrics} \cup {HostTask}

\* the goroutines publishMetric starts for a working set
TasksOf(serviceMetrics, hostMetrics) ==
    {ServiceTask(s) : s \in DOMAIN serviceMetrics}
    \cup (IF Len(hostMetrics) > 0 THEN {HostTask} ELSE {})

\* the batch a goroutine posts
BatchOf(d) ==
    IF d.kind = "service" THEN fctx.serviceMetrics[d.service]
    ELSE fctx.hostMetrics

\* the exchanges the server of the invocation answers with: success, a
\* fatal status, a retryable status, both transport errors, the deadline
TaskExchanges ==
    {Exchange("status", 200, "", FALSE), Exchange("status", 403, "forbidden", FALSE),
     Exchange("status", 500, "busy", FALSE), Exchange("transport", 0, "", TRUE),
     Exchange("transport", 0, "", FALSE), DeadlineExchange}

\* the exchanges a scripted server answers one Post call with
Scripts == UNION {[1..k -> TaskExchanges] : k \in 1..MaxScript}

\* publishMetric starts its goroutines; a goroutine is
\*   pc       "post", "lock", "save" or "done"
\*   outcome  what it logged: "none", "ok" or "failed"
\*   calls    the Post calls it has made
\*   posted   the batch its Post call carried
PublishStart ==
    /\ inv.pc = "publish"
    /\ tasks' = [d \in TasksOf(fctx.serviceMetrics, fctx.hostMetrics) |->
                   [pc |-> "post", outcome |-> "none", calls |-> 0,
                    posted |-> <<>>]]
    /\ inv' = [inv EXCEPT !.pc = "wait"]
    /\ UNCHANGED <<mu, invs, clock, APIURL, svcmackerel, muPending,
                   pendingServiceMetrics, pendingHostMetrics, fctx, ctxDone,
                   post, call>>

\* the goroutine's Post call against a scripted server, and the branch on
\* its error
TaskPost(d, script) ==
    /\ inv.pc = "wait"
    /\ d \in DOMAIN tasks
    /\ tasks[d].pc = "post"
    /\ LET r == PostRun(PostStart(Len(BatchOf(d))), script, ctxDone)
       IN /\ ctxDone' = r.expired
          /\ tasks' = [tasks EXCEPT
                        ![d].pc = IF r.st.ret # NilError THEN "lock" ELSE "done",
                        ![d].outcome = IF r.st.ret # NilError THEN "failed"
                                       ELSE "ok",
                        ![d].calls = @ + 1,
                        ![d].posted = BatchOf(d)]
    /\ UNCHANGED <<mu, invs, clock, APIURL, svcmackerel, muPending,
                   pendingServiceMetrics, pendingHostMetrics, inv, fctx, post,
                   call>>

\* fctx.mu.Lock()
TaskLock(d) ==
    /\ inv.pc = "wait"
    /\ d \in DOMAIN tasks
    /\ tasks[d].pc = "lock"
    /\ fctx.mu = {}
    /\ fctx' = [fctx EXCEPT !.mu = {d}]
    /\ tasks' = [tasks EXCEPT ![d].pc = "save"]
    /\ UNCHANGED <<mu, invs, clock, APIURL, svcmackerel, muPending,
                   pendingServiceMetrics, pendingHostMetrics, inv, ctxDone, post,
                   call>>

\* a variant that forgets the failed batch
SaveFailedServiceDropped(failed, service, metrics) == failed

\* a variant that makes a new map for every failed batch
SaveFailedServiceAlone(failed, service, metrics) ==
    MapSet(EmptyServiceMetrics, service, metrics)

\* fctx.failedServiceMetrics[service] = append(..., metrics...)
SaveFailedService(failed, service, metrics) ==
    MapSet(failed, service, MapGet(failed, service) \o metrics)

\* a variant that forgets the failed host batch
SaveFailedHostDropped(failed, hostMetrics) == failed

\* fctx.failedHostMetrics = fctx.hostMetrics
SaveFailedHost(failed, hostMetrics) == hostMetrics

\* a variant that saves the batch without fctx.mu
TaskSaveNoLock(d) ==
    /\ inv.pc = "wait"
    /\ d \in DOMAIN tasks
    /\ tasks[d].pc \in {"lock", "save"}
    /\ fctx' = IF d.kind = "service"
               THEN [fctx EXCEPT !.failedServiceMetrics =
                       SaveFailedService(@, d.service, BatchOf(d)),
                                 !.mu = @ \ {d}]
               ELSE [fctx EXCEPT !.failedHostMetrics =
                       SaveFailedHost(@, fctx.hostMetrics),
                                 !.mu = @ \ {d}]
    /\ tasks' = [tasks EXCEPT ![d].pc = "done"]
    /\ UNCHANGED <<mu, invs, clock, APIURL, svcmackerel, muPending,
                   pendingServiceMetrics, pendingHostMetrics, inv, ctxDone, post,
                   call>>

\* the goroutine saves its batch to retry; the deferred fctx.mu.Unlock()
\* and wg.Done() end it
TaskSave(d) ==
    /\ inv.pc = "wait"
    /\ d \in DOMAIN tasks
    /\ tasks[d].pc = "save"
    /\ fctx.mu = {d}
    /\ fctx' = IF d.kind = "service"
               THEN [fctx EXCEPT !.failedServiceMetrics =
                       SaveFailedService(@, d.service, BatchOf(d)),
                                 !.mu = {}]
               ELSE [fctx EXCEPT !.failedHostMetrics =
                       SaveFailedHost(@, fctx.hostMetrics),
                                 !.mu = {}]
    /\ tasks' = [tasks EXCEPT ![d].pc = "done"]
    /\ UNCHANGED <<mu, invs, clock, APIURL, svcmackerel, muPending,
                   pendingServiceMetrics, pendingHostMetrics, inv, ctxDone, post,
                   call>>

\* a variant that reports a failed delivery when the fetch went well
forwardMetricsReturnDelivery(err, ts) ==
    IF err = NilError /\ \E d \in DOMAIN ts : ts[d].outcome = "failed"
    THEN ErrorValue("delivery", 0, "", FALSE)
    ELSE err

\* what forwardMetrics returns after publishMetric
forwardMetricsReturn(err, ts) == err

\* wg.Wait() is over: the failed metrics become the pending ones, the
\* deferred f.muPending.Unlock() runs and ForwardMetrics returns
Return ==
    /\ inv.pc = "wait"
    /\ \A d \in DOMAIN tasks : tasks[d].pc = "done"
    /\ pendingServiceMetrics' = fctx.failedServiceMetrics
    /\ pendingHostMetrics' = fctx.failedHostMetrics
    /\ muPending' = "free"
    /\ inv' = [inv EXCEPT !.pc = "returned", !.exit = "end",
                          !.ret = forwardMetricsReturn(inv.err, tasks)]
    /\ UNCHANGED <<mu, invs, clock, APIURL, svcmackerel, fctx, tasks, ctxDone,
                   post, call>>

AllTasks == {ServiceTask(SvcA), ServiceTask(SvcB), HostTask}

Next ==
    \/ \E elapsed \in {0} \cup Advances, valid \in BOOLEAN,
          defaults \in DefaultsChoices : Invoke(elapsed, valid, defaults)
    \/ \E keyFound \in BOOLEAN : Configure(keyFound)
    \/ Begin
    \/ \E expired \in BOOLEAN : NextPageError(expired)
    \/ \E rows \in SeqsUpTo(Rows(fctx.start, inv.n), MaxRows), more \in BOOLEAN :
          NextPage(rows, more)
    \/ \E order \in Orders(DOMAIN inv.defaults) : FetchDefaults(order)
    \/ PublishStart
    \/ \E d \in AllTasks, script \in Scripts : TaskPost(d, script)
    \/ \E d \in AllTasks : TaskLock(d)
    \/ \E d \in AllTasks : TaskSave(d)
    \/ Return

Spec == Init /\ [][Next]_vars

----------------------------------------------------------------------------
(* One PostServiceMetricValues / PostHostMetricValues call on its own,     *)
(* attempt by attempt, against a server that answers as it likes           *)

InitPost ==
    /\ clock = StartClock
    /\ APIURL = ""
    /\ svcmackerel = NilClient
    /\ muPending = "free"
    /\ pendingServiceMetrics = EmptyServiceMetrics
    /\ pendingHostMetrics = <<>>
    /\ inv = ZeroInvocation
    /\ fctx = ZeroContext
    /\ tasks = NoTasks
    /\ ctxDone = FALSE
    /\ post \in {PostStart(n) : n \in 0..MaxBatch}
    /\ call = NoCall
    /\ mu = {}
    /\ invs = NoInvocations

\* Continue allows an iteration: f() runs and Do looks at its error
PostAttempt(resp) ==
    /\ ~post.done
    /\ Continue(post, ctxDone)
    /\ post' = DoAttempt(post, resp)
    /\ UNCHANGED <<mu, invs, clock, APIURL, svcmackerel, muPending,
                   pendingServiceMetrics, pendingHostMetrics, inv, fctx, tasks,
                   ctxDone, call>>

\* Continue reports false and Do returns
PostStop ==
    /\ ~post.done
    /\ ~Continue(post, ctxDone)
    /\ post' = DoStop(post, ctxDone)
    /\ UNCHANGED <<mu, invs, clock, APIURL, svcmackerel, muPending,
                   pendingServiceMetrics, pendingHostMetrics, inv, fctx, tasks,
                   ctxDone, call>>

\* the context of the call expires while the call is under way
PostDeadline ==
    /\ ~post.done
    /\ ~ctxDone
    /\ ctxDone' = TRUE
    /\ UNCHANGED <<mu, invs, clock, APIURL, svcmackerel, muPending,
                   pendingServiceMetrics, pendingHostMetrics, inv, fctx, tasks,
                   post, call>>

NextPost ==
    \/ \E resp \in Responses : PostAttempt(resp)
    \/ PostStop
    \/ PostDeadline

SpecPost == InitPost /\ [][NextPost]_vars

----------------------------------------------------------------------------
(* Functions called on their own                                           *)

\* the forwarder at rest, no function called yet
InitCall ==
    /\ clock = StartClock
    /\ APIURL = ""
    /\ svcmackerel = NilClient
    /\ muPending = "free"
    /\ pendingServiceMetrics = EmptyServiceMetrics
    /\ pendingHostMetrics = <<>>
    /\ inv = ZeroInvocation
    /\ fctx = ZeroContext
    /\ tasks = NoTasks
    /\ ctxDone = FALSE
    /\ post = PostStart(0)
    /\ call = NoCall
    /\ mu = {}
    /\ invs = NoInvocations

----------------------------------------------------------------------------
(* label.go: ParseLabel and Label.String called on their own               *)

\* the pieces label strings are made of: the two id names, another name and
\* the separators
Pieces == {KwService, KwHost, <<"z">>, <<"=">>, <<":">>, <<"a">>}

\* the pieces of a sequence, one after the other
RECURSIVE Concat(_)
Concat(pieces) ==
    IF pieces = <<>> THEN <<>> ELSE Head(pieces) \o Concat(Tail(pieces))

\* the strings handed to ParseLabel
LabelInputs == {Concat(ps) : ps \in SeqsUpTo(Pieces, MaxPieces)}

\* the characters and the values of a field of a Label
FieldChars == {"a", ":", "="}
FieldStrings == SeqsUpTo(FieldChars, MaxFieldLen)

\* the Labels handed to Label.String
LabelValues ==
    {Label(sv, h, m) : sv \in FieldStrings, h \in FieldStrings,
                       m \in FieldStrings}

\* ParseLabel(s)
CallParseLabel(s) ==
    /\ call.op = "none"
    /\ call' = [op |-> "ParseLabel", in |-> s, out |-> ParseLabel(s)]
    /\ UNCHANGED forwarderVars
    /\ UNCHANGED post

\* ParseLabel(l.String())
CallRoundTrip(l) ==
    /\ call.op = "none"
    /\ call' = [op |-> "RoundTrip", in |-> l, str |-> LabelString(l),
                out |-> ParseLabel(LabelString(l))]
    /\ UNCHANGED forwarderVars
    /\ UNCHANGED post

NextLabel ==
    /\ call.op = "none"
    /\ \/ \E s \in LabelInputs : CallParseLabel(s)
       \/ \E l \in LabelValues : CallRoundTrip(l)

SpecLabel == InitCall /\ [][NextLabel]_vars

----------------------------------------------------------------------------
(* query.go: ToMetricDataQuery                                             *)

\* the token that stands for the value of the spec before
Dot == <<".">>

\* Query
Query(service, host, name, metric, stat) ==
    [Service |-> service, Host |-> host, Name |-> name, Metric |-> metric,
     Stat |-> stat]

\* a variant that never remembers a value
setDefaultForgets(ret, last) ==
    IF ret = Dot THEN [ret |-> last, last |-> last]
    ELSE [ret |-> ret, last |-> last]

\* setDefault(&ret, &last): both strings afterwards
setDefault(ret, last) ==
    IF ret = Dot THEN [ret |-> last, last |-> last]
    ELSE [ret |-> ret, last |-> ret]

\* interfaceToString of a token that is a string
interfaceToString(in) == in

\* fmt.Sprintf("%d", n) for n >= 0
DecimalDigits == <<"0", "1", "2", "3", "4", "5", "6", "7", "8", "9">>

RECURSIVE Itoa(_)
Itoa(n) ==
    IF n < 10 THEN <<DecimalDigits[n + 1]>>
    ELSE Itoa(n \div 10) \o <<DecimalDigits[(n % 10) + 1]>>

\* a variant that numbers the queries by their place in the result
QueryIdEmitted(i, ret) == <<"m">> \o Itoa(Len(ret) + 1)

\* fmt.Sprintf("m%d", i+1), i the index of the spec in the list
QueryId(i, ret) == <<"m">> \o Itoa(i + 1)

\* the locals of ToMetricDataQuery before its loop
CompilerStart ==
    [lastMetric |-> [j \in 0..(MetricSlots - 1) |-> <<>>],
     lastHost |-> <<>>, lastService |-> <<>>, lastStat |-> <<>>,
     ret |-> <<>>, panic |-> FALSE]

\* The loop over the dimension tokens from index j on:
\* [lastMetric, dimensions, panic]
RECURSIVE DimensionLoop(_, _, _, _)
DimensionLoop(metric, j, lastMetric, dimensions) ==
    IF ~(j + 1 < Len(metric))
    THEN [lastMetric |-> lastMetric, dimensions |-> dimensions,
          panic |-> FALSE]
    ELSE IF j + 1 >= MetricSlots
    THEN [lastMetric |-> lastMetric, dimensions |-> dimensions,
          panic |-> TRUE]
    ELSE LET name == setDefault(interfaceToString(metric[j + 1]),
                                lastMetric[j])
             value == setDefault(interfaceToString(metric[j + 2]),
                                 lastMetric[j + 1])
         IN DimensionLoop(metric, j + 2,
                          [lastMetric EXCEPT ![j] = name.last,
                                             ![j + 1] = value.last],
                          Append(dimensions,
                                 [Name |-> name.ret, Value |-> value.ret]))

\* a variant that reads the metric tokens of a spec before it decides to
\* skip it
CompileSpecMetricFirst(st, i, q) ==
    LET host == setDefault(q.Host, st.lastHost)
        service == setDefault(q.Service, st.lastService)
        stat == setDefault(q.Stat, st.lastStat)
        st1 == [st EXCEPT !.lastHost = host.last,
                          !.lastService = service.last,
                          !.lastStat = stat.last]
    IN
    IF Len(q.Metric) < 2 THEN [st1 EXCEPT !.panic = TRUE]
    ELSE
      LET namespace == setDefault(interfaceToString(q.Metric[1]),
                                  st1.lastMetric[0])
          name == setDefault(interfaceToString(q.Metric[2]),
                             st1.lastMetric[1])
          loop == DimensionLoop(q.Metric, 2,
                                [st1.lastMetric EXCEPT ![0] = namespace.last,
                                                       ![1] = name.last],
                                <<>>)
          label == Label(service.ret, host.ret, q.Name)
      IN
      IF loop.panic THEN [st1 EXCEPT !.panic = TRUE]
      ELSE IF (host.ret = <<>>) = (service.ret = <<>>)
      THEN [st1 EXCEPT !.lastMetric = loop.lastMetric]
      ELSE [st1 EXCEPT
              !.lastMetric = loop.lastMetric,
              !.ret = Append(@, [Id |-> QueryId(i, st1.ret),
                                 Label |-> LabelString(label),
                                 Namespace |-> namespace.ret,
                                 MetricName |-> name.ret,
                                 Dimensions |-> loop.dimensions,
                                 Period |-> Period,
                                 Stat |-> stat.ret])]

\* One iteration of the loop of ToMetricDataQuery, for the spec q at index
\* i (0-based), from the locals st: the locals afterwards. The warning for a
\* short token list does not leave the iteration, and the index expressions
\* q.Metric[0] and q.Metric[1] after it panic when the token is missing.
CompileSpec(st, i, q) ==
    LET host == setDefault(q.Host, st.lastHost)
        service == setDefault(q.Service, st.lastService)
        stat == setDefault(q.Stat, st.lastStat)
        st1 == [st EXCEPT !.lastHost = host.last,
                          !.lastService = service.last,
                          !.lastStat = stat.last]
    IN
    IF (host.ret = <<>>) = (service.ret = <<>>) THEN st1
    ELSE IF Len(q.Metric) < 2 THEN [st1 EXCEPT !.panic = TRUE]
    ELSE
      LET namespace == setDefault(interfaceToString(q.Metric[1]),
                                  st1.lastMetric[0])
          name == setDefault(interfaceToString(q.Metric[2]),
                             st1.lastMetric[1])
          loop == DimensionLoop(q.Metric, 2,
                                [st1.lastMetric EXCEPT ![0] = namespace.last,
                                                       ![1] = name.last],
                                <<>>)
          label == Label(service.ret, host.ret, q.Name)
      IN
      IF loop.panic THEN [st1 EXCEPT !.panic = TRUE]
      ELSE [st1 EXCEPT
              !.lastMetric = loop.lastMetric,
              !.ret = Append(@, [Id |-> QueryId(i, st1.ret),
                                 Label |-> LabelString(label),
                                 Namespace |-> namespace.ret,
                                 MetricName |-> name.ret,
                                 Dimensions |-> loop.dimensions,
                                 Period |-> Period,
                                 Stat |-> stat.ret])]

\* the loop from index i on
RECURSIVE CompileFrom(_, _, _)
CompileFrom(st, i, query) ==
    IF st.panic \/ i >= Len(query) THEN st
    ELSE CompileFrom(CompileSpec(st, i, query[i + 1]), i + 1, query)

\* ToMetricDataQuery: [panic, err, ret]; the error is always nil
ToMetricDataQuery(query) ==
    LET st == CompileFrom(CompilerStart, 0, query)
    IN [panic |-> st.panic, err |-> FALSE,
        ret |-> IF st.panic THEN <<>> ELSE st.ret]

\* the destinations a spec may name: a service, another, the service of the
\* spec before, a host, the host of the spec before, none, both
SpecDestinations ==
    {<<SvcA, <<>>>>, <<SvcB, <<>>>>, <<Dot, <<>>>>, <<<<>>, HostH>>,
     <<<<>>, Dot>>, <<<<>>, <<>>>>, <<SvcA, HostH>>}

\* what a spec may carry besides its destination: <<token list, destination
\* metric name, statistic>>. The token lists: none, one token, namespace and
\* metric name, and one dimension after them.
SpecBodies ==
    {<<<<>>, MetricM, <<"S">>>>,
     <<<<Dot>>, MetricM, Dot>>,
     <<<<<<"n">>, <<"x">>>>, MetricM, <<"S">>>>,
     <<<<<<"n">>, <<"x">>>>, <<>>, <<"T">>>>,
     <<<<Dot, Dot>>, MetricM, Dot>>,
     <<<<Dot, Dot>>, <<>>, <<"S">>>>,
     <<<<<<"o">>, <<"y">>, <<"d">>, <<"v">>>>, MetricM, <<"T">>>>,
     <<<<Dot, Dot, Dot, <<"w">>>>, MetricM, Dot>>}

\* the specs and the lists of specs handed to ToMetricDataQuery
Specs ==
    {Query(d[1], d[2], b[2], b[1], b[3]) :
       d \in SpecDestinations, b \in SpecBodies}

\* the lists of k specs
SpecLists(k) == [1..k -> Specs]

\* ToMetricDataQuery(query)
CallToMetricDataQuery(query) ==
    /\ call.op = "none"
    /\ call' = [op |-> "ToMetricDataQuery", in |-> query,
                out |-> ToMetricDataQuery(query)]
    /\ UNCHANGED forwarderVars
    /\ UNCHANGED post

NextQuery ==
    /\ call.op = "none"
    /\ \E k \in 0..MaxSpecs : \E query \in SpecLists(k) :
         CallToMetricDataQuery(query)

SpecQuery == InitCall /\ [][NextQuery]_vars

----------------------------------------------------------------------------
(* forwarder.go: the two collections on their own                          *)

\* the values handed to the two Append methods
BufferNames == {MetricM, <<"k">>}
BufferTimes == {MinuteSeconds, 2 * MinuteSeconds}
BufferValues == {1, 2}

ServiceValues ==
    {ServiceMetricValue(n, t, x) :
       n \in BufferNames, t \in BufferTimes, x \in BufferValues}

HostValues ==
    {HostMetricValue(h, n, t, x) :
       h \in {HostH, <<"g">>}, n \in BufferNames, t \in BufferTimes,
       x \in BufferValues}

\* the two collections after the calls made so far
BufferServices ==
    IF call.op = "none" THEN EmptyServiceMetrics ELSE call.services

BufferHosts == IF call.op = "none" THEN <<>> ELSE call.hosts

BufferCalls == IF call.op = "none" THEN 0 ELSE call.n

\* m.Append(service, v) on the service collection
CallServiceAppend(service, v) ==
    /\ call' = [op |-> "ServiceAppend", n |-> BufferCalls + 1,
                service |-> service, v |-> v,
                servicesBefore |-> BufferServices,
                hostsBefore |-> BufferHosts,
                services |-> ServiceAppend(BufferServices, service, v),
                hosts |-> BufferHosts]
    /\ UNCHANGED forwarderVars
    /\ UNCHANGED post

\* m.Append(v) on the host collection
CallHostAppend(v) ==
    /\ call' = [op |-> "HostAppend", n |-> BufferCalls + 1,
                service |-> <<>>, v |-> v,
                servicesBefore |-> BufferServices,
                hostsBefore |-> BufferHosts,
                services |-> BufferServices,
                hosts |-> HostAppend(BufferHosts, v)]
    /\ UNCHANGED forwarderVars
    /\ UNCHANGED post

\* the thresholds handed to the two Drop methods, as t.Unix()
BufferThresholds == {MinuteSeconds, 2 * MinuteSeconds, 3 * MinuteSeconds}

\* m.Drop(t) on the service collection
CallServiceDrop(unix) ==
    LET dropped == ServiceDrop(BufferServices, unix)
    IN /\ call' = [op |-> "ServiceDrop", n |-> BufferCalls + 1,
                   unix |-> unix, cnt |-> dropped.cnt,
                   servicesBefore |-> BufferServices,
                   hostsBefore |-> BufferHosts,
                   services |-> dropped.m,
                   hosts |-> BufferHosts]
       /\ UNCHANGED forwarderVars
       /\ UNCHANGED post

\* m.Drop(t) on the host collection
CallHostDrop(unix) ==
    LET dropped == HostDrop(BufferHosts, unix)
    IN /\ call' = [op |-> "HostDrop", n |-> BufferCalls + 1,
                   unix |-> unix, cnt |-> dropped.cnt,
                   servicesBefore |-> BufferServices,
                   hostsBefore |-> BufferHosts,
                   services |-> BufferServices,
                   hosts |-> dropped.m]
       /\ UNCHANGED forwarderVars
       /\ UNCHANGED post

NextBuffer ==
    /\ BufferCalls < MaxAppends
    /\ \/ \E service \in {SvcA, SvcB} : \E v \in ServiceValues :
            CallServiceAppend(service, v)
       \/ \E v \in HostValues : CallHostAppend(v)
       \/ \E unix \in BufferThresholds : CallServiceDrop(unix)
       \/ \E unix \in BufferThresholds : CallHostDrop(unix)

SpecBuffer == InitCall /\ [][NextBuffer]_vars

----------------------------------------------------------------------------
(* forwarder.go: apiKey called on its own                                  *)

\* What apiKey returns and what it did:
\*   key    the key: where it is from ("plain" a configured string as it
\*          is, "kms" the plaintext KMS made of it, "ssm" the value of the
\*          parameter of that name), the string or name, and the
\*          WithDecryption flag of the GetParameter call
\*   err    an error is returned, and the key is ""
\*   reads  the sources read, in order
\*   calls  the services called, in order
KeyResult(from, of, decrypt, err, reads, calls) ==
    [key |-> IF err THEN [from |-> "none", of |-> "", decrypt |-> FALSE]
             ELSE [from |-> from, of |-> of, decrypt |-> decrypt],
     err |-> err, reads |-> reads, calls |-> calls]

\* the strings base64.StdEncoding.DecodeString rejects
NotBase64 == {"%"}

\* the branch of a key given as a string: as it is, or decoded and
\* decrypted by KMS
KeyFromString(key, decrypt, kmsFails, reads) ==
    IF ~decrypt THEN KeyResult("plain", key, FALSE, FALSE, reads, <<>>)
    ELSE IF key \in NotBase64
    THEN KeyResult("kms", key, FALSE, TRUE, reads, <<>>)
    ELSE KeyResult("kms", key, FALSE, kmsFails, reads, <<"kms">>)

\* the branch of a key given as the name of a parameter
KeyFromParameter(name, decrypt, ssmFails, reads) ==
    KeyResult("ssm", name, decrypt, ssmFails, reads, <<"ssm">>)

\* the four sources, in the order apiKey reads them
KeySources ==
    <<"APIKey", "APIKeyParameter", "MACKEREL_APIKEY",
      "MACKEREL_APIKEY_PARAMETER">>

\* a variant that prefers the environment's key to the parameter field
apiKeyEnvironmentFirst(f, env, kmsFails, ssmFails) ==
    LET decrypt == f.APIKeyWithDecrypt \/ env.MACKEREL_APIKEY_WITH_DECRYPT # ""
    IN IF f.APIKey # ""
       THEN KeyFromString(f.APIKey, decrypt, kmsFails, SubSeq(KeySources, 1, 1))
       ELSE IF env.MACKEREL_APIKEY # ""
       THEN KeyFromString(env.MACKEREL_APIKEY, decrypt, kmsFails,
                          SubSeq(KeySources, 1, 3))
       ELSE IF f.APIKeyParameter # ""
       THEN KeyFromParameter(f.APIKeyParameter, decrypt, ssmFails,
                             SubSeq(KeySources, 1, 2))
       ELSE IF env.MACKEREL_APIKEY_PARAMETER # ""
       THEN KeyFromParameter(env.MACKEREL_APIKEY_PARAMETER, decrypt, ssmFails,
                             KeySources)
       ELSE KeyResult("none", "", FALSE, TRUE, KeySources, <<>>)

\* Forwarder.apiKey: f holds the fields of the Forwarder, env the
\* environment; kmsFails and ssmFails are whether the service answers with
\* an error
apiKey(f, env, kmsFails, ssmFails) ==
    LET decrypt == f.APIKeyWithDecrypt \/ env.MACKEREL_APIKEY_WITH_DECRYPT # ""
    IN IF f.APIKey # ""
       THEN KeyFromString(f.APIKey, decrypt, kmsFails, SubSeq(KeySources, 1, 1))
       ELSE IF f.APIKeyParameter # ""
       THEN KeyFromParameter(f.APIKeyParameter, decrypt, ssmFails,
                             SubSeq(KeySources, 1, 2))
       ELSE IF env.MACKEREL_APIKEY # ""
       THEN KeyFromString(env.MACKEREL_APIKEY, decrypt, kmsFails,
                          SubSeq(KeySources, 1, 3))
       ELSE IF env.MACKEREL_APIKEY_PARAMETER # ""
       THEN KeyFromParameter(env.MACKEREL_APIKEY_PARAMETER, decrypt, ssmFails,
                             KeySources)
       ELSE KeyResult("none", "", FALSE, TRUE, KeySources, <<>>)

\* the Forwarder fields and the environments apiKey is called with
KeyFields ==
    [APIKey : {"", "a2V5", "%"}, APIKeyParameter : {"", "/param"},
     APIKeyWithDecrypt : BOOLEAN]

KeyEnvironments ==
    [MACKEREL_APIKEY : {"", "ZW52", "%"},
     MACKEREL_APIKEY_PARAMETER : {"", "/env/param"},
     MACKEREL_APIKEY_WITH_DECRYPT : {"", "1"}]

\* f.apiKey(ctx, svcssm, svckms)
CallApiKey(f, env, kmsFails, ssmFails) ==
    /\ call' = [op |-> "apiKey", f |-> f, env |-> env,
                kmsFails |-> kmsFails, ssmFails |-> ssmFails,
                result |-> apiKey(f, env, kmsFails, ssmFails)]
    /\ UNCHANGED forwarderVars
    /\ UNCHANGED post

NextKey ==
    /\ call.op = "none"
    /\ \E f \in KeyFields, env \in KeyEnvironments,
          kmsFails \in BOOLEAN, ssmFails \in BOOLEAN :
            CallApiKey(f, env, kmsFails, ssmFails)

SpecKey == InitCall /\ [][NextKey]_vars

----------------------------------------------------------------------------
(* forwarder.go: ForwardMetrics called concurrently on one Forwarder       *)

\* One of the concurrent invocations:
\*   pc        "idle", "ssm", "kms", "mackerel", "apiKey", "pending",
\*             "fetch", "write" (publishMetric runs) or "returned"
\*   n         calls of ForwardMetrics this caller has made
\*   resolved  this call has called apiKey
\*   working   fctx.serviceMetrics
\*   base      the pending service metrics as this call read them and
\*             changed them since
\*   err       the error the call returned
\*   tasks     the goroutines of publishMetric, as in tasks
\*   fmu       fctx.mu: the goroutines that hold it
\*   failed    fctx.failedServiceMetrics
ZeroConcurrent ==
    [pc |-> "idle", n |-> 0, resolved |-> FALSE,
     working |-> EmptyServiceMetrics, base |-> EmptyServiceMetrics,
     err |-> NilError, tasks |-> NoTasks, fmu |-> {},
     failed |-> EmptyServiceMetrics]

InitConcurrent ==
    /\ clock = StartClock
    /\ APIURL \in APIURLs
    /\ svcmackerel = NilClient
    /\ muPending = "free"
    /\ pendingServiceMetrics = EmptyServiceMetrics
    /\ pendingHostMetrics = <<>>
    /\ inv = ZeroInvocation
    /\ fctx = ZeroContext
    /\ tasks = NoTasks
    /\ ctxDone = FALSE
    /\ post = PostStart(0)
    /\ call = NoCall
    /\ mu = {}
    /\ invs = [i \in 1..MaxConcurrent |-> ZeroConcurrent]

\* a caller calls ForwardMetrics: the payload is parsed, the clock is read
\* and mackerel() is entered
StartConcurrent(i) ==
    /\ invs[i].pc \in {"idle", "returned"}
    /\ invs[i].n < MaxInvocations
    /\ invs' = [invs EXCEPT ![i] = [ZeroConcurrent EXCEPT
                                      !.pc = "ssm", !.n = invs[i].n + 1]]
    /\ UNCHANGED <<clock, APIURL, svcmackerel, muPending,
                   pendingServiceMetrics, pendingHostMetrics, inv, fctx,
                   tasks, ctxDone, post, call, mu>>

\* f.ssm() and f.kms(): each locks f.mu, makes the client when there is
\* none and unlocks
ServiceClient(i) ==
    /\ invs[i].pc \in {"ssm", "kms"}
    /\ mu = {}
    /\ invs' = [invs EXCEPT ![i].pc = IF @ = "ssm" THEN "kms" ELSE "mackerel"]
    /\ UNCHANGED <<clock, APIURL, svcmackerel, muPending,
                   pendingServiceMetrics, pendingHostMetrics, inv, fctx,
                   tasks, ctxDone, post, call, mu>>

\* a variant that does not wait for f.mu
MackerelLockNoWait(i) ==
    /\ invs[i].pc = "mackerel"
    /\ IF svcmackerel.set
       THEN /\ invs' = [invs EXCEPT ![i].pc = "pending"]
            /\ mu' = mu
       ELSE /\ invs' = [invs EXCEPT ![i].pc = "apiKey", ![i].resolved = TRUE]
            /\ mu' = mu \cup {i}
    /\ UNCHANGED <<clock, APIURL, svcmackerel, muPending,
                   pendingServiceMetrics, pendingHostMetrics, inv, fctx,
                   tasks, ctxDone, post, call>>

\* mackerel(): f.mu.Lock() and the look at f.svcmackerel; with a client
\* there, the deferred Unlock and the return; without, on to apiKey with
\* the lock held
MackerelLock(i) ==
    /\ invs[i].pc = "mackerel"
    /\ mu = {}
    /\ IF svcmackerel.set
       THEN /\ invs' = [invs EXCEPT ![i].pc = "pending"]
            /\ mu' = mu
       ELSE /\ invs' = [invs EXCEPT ![i].pc = "apiKey", ![i].resolved = TRUE]
            /\ mu' = {i}
    /\ UNCHANGED <<clock, APIURL, svcmackerel, muPending,
                   pendingServiceMetrics, pendingHostMetrics, inv, fctx,
                   tasks, ctxDone, post, call>>

\* a variant that returns an error of apiKey with f.mu held
ResolveKeyKeepsLock(i, keyFound) ==
    /\ invs[i].pc = "apiKey"
    /\ LET r == mackerel(svcmackerel, APIURL, keyFound)
       IN /\ svcmackerel' = r.client
          /\ invs' = IF r.err
                     THEN [invs EXCEPT ![i].pc = "returned",
                             ![i].err = ErrorValue("config", 0, "", FALSE)]
                     ELSE [invs EXCEPT ![i].pc = "pending"]
          /\ mu' = IF r.err THEN mu ELSE mu \ {i}
    /\ UNCHANGED <<clock, APIURL, muPending, pendingServiceMetrics,
                   pendingHostMetrics, inv, fctx, tasks, ctxDone, post, call>>

\* apiKey returns, with a key or without: the rest of mackerel(), its
\* deferred Unlock and the check of its error in forwardMetrics
ResolveKey(i, keyFound) ==
    /\ invs[i].pc = "apiKey"
    /\ LET r == mackerel(svcmackerel, APIURL, keyFound)
       IN /\ svcmackerel' = r.client
          /\ invs' = IF r.err
                     THEN [invs EXCEPT ![i].pc = "returned",
                             ![i].err = ErrorValue("config", 0, "", FALSE)]
                     ELSE [invs EXCEPT ![i].pc = "pending"]
    /\ mu' = mu \ {i}
    /\ UNCHANGED <<clock, APIURL, muPending, pendingServiceMetrics,
                   pendingHostMetrics, inv, fctx, tasks, ctxDone, post, call>>

\* a variant that does not wait for f.muPending
PendingLockNoWait(i) ==
    /\ invs[i].pc = "pending"
    /\ muPending' = "held"
    /\ pendingHostMetrics'
         = HostDrop(pendingHostMetrics, clock - RetentionSeconds).m
    /\ invs' = [invs EXCEPT ![i].pc = "fetch",
                            ![i].working = pendingServiceMetrics,
                            ![i].base = pendingServiceMetrics]
    /\ UNCHANGED <<clock, APIURL, svcmackerel, pendingServiceMetrics, inv,
                   fctx, tasks, ctxDone, post, call, mu>>

\* f.muPending.Lock(), the drop of old host metrics and the forwardContext,
\* which reads the pending collections
PendingLock(i) ==
    /\ invs[i].pc = "pending"
    /\ muPending = "free"
    /\ muPending' = "held"
    /\ pendingHostMetrics'
         = HostDrop(pendingHostMetrics, clock - RetentionSeconds).m
    /\ invs' = [invs EXCEPT ![i].pc = "fetch",
                            ![i].working = pendingServiceMetrics,
                            ![i].base = pendingServiceMetrics]
    /\ UNCHANGED <<clock, APIURL, svcmackerel, pendingServiceMetrics, inv,
                   fctx, tasks, ctxDone, post, call, mu>>

\* getMetricsData and the start of publishMetric: f.cloudwatch() locks and
\* unlocks f.mu, the fetch brings a value for the services a and b, or
\* none, the Appends go to the map the working set shares with the pending
\* one, and one goroutine is started for every service of the working set
FetchConcurrent(i, got) ==
    /\ invs[i].pc = "fetch"
    /\ mu = {}
    /\ LET v == ServiceMetricValue(MetricM, WindowStart(clock), i)
           working == IF got
                      THEN ServiceAppend(ServiceAppend(invs[i].working, SvcA, v),
                                         SvcB, v)
                      ELSE invs[i].working
       IN /\ pendingServiceMetrics' = SharedMap(working)
          /\ invs' = [invs EXCEPT
                        ![i].pc = "write",
                        ![i].working = working,
                        ![i].base = SharedMap(working),
                        ![i].tasks = [d \in TasksOf(working, <<>>) |->
                                       [pc |-> "post", outcome |-> "none"]]]
    /\ UNCHANGED <<clock, APIURL, svcmackerel, muPending, pendingHostMetrics,
                   inv, fctx, tasks, ctxDone, post, call, mu>>

\* a goroutine of publishMetric: its Post call returns, and it goes on to
\* save its batch or ends
TaskPostConcurrent(i, d, delivered) ==
    /\ invs[i].pc = "write"
    /\ d \in DOMAIN invs[i].tasks
    /\ invs[i].tasks[d].pc = "post"
    /\ invs' = [invs EXCEPT ![i].tasks[d] =
                   IF delivered THEN [pc |-> "done", outcome |-> "ok"]
                   ELSE [pc |-> "lock", outcome |-> "failed"]]
    /\ UNCHANGED <<clock, APIURL, svcmackerel, muPending,
                   pendingServiceMetrics, pendingHostMetrics, inv, fctx,
                   tasks, ctxDone, post, call, mu>>

\* fctx.mu.Lock() of a goroutine
TaskLockConcurrent(i, d) ==
    /\ invs[i].pc = "write"
    /\ d \in DOMAIN invs[i].tasks
    /\ invs[i].tasks[d].pc = "lock"
    /\ invs[i].fmu = {}
    /\ invs' = [invs EXCEPT ![i].tasks[d].pc = "save", ![i].fmu = {d}]
    /\ UNCHANGED <<clock, APIURL, svcmackerel, muPending,
                   pendingServiceMetrics, pendingHostMetrics, inv, fctx,
                   tasks, ctxDone, post, call, mu>>

\* the goroutine saves its batch; the deferred fctx.mu.Unlock() and
\* wg.Done() end it
TaskSaveConcurrent(i, d) ==
    /\ invs[i].pc = "write"
    /\ d \in DOMAIN invs[i].tasks
    /\ invs[i].tasks[d].pc = "save"
    /\ invs[i].fmu = {d}
    /\ invs' = [invs EXCEPT
                  ![i].tasks[d].pc = "done",
                  ![i].fmu = {},
                  ![i].failed = SaveFailedService(@, d.service,
                                                  invs[i].working[d.service])]
    /\ UNCHANGED <<clock, APIURL, svcmackerel, muPending,
                   pendingServiceMetrics, pendingHostMetrics, inv, fctx,
                   tasks, ctxDone, post, call, mu>>

\* wg.Wait() is over: the failed metrics become the pending ones, the
\* deferred f.muPending.Unlock() runs and the call returns
WriteBack(i) ==
    /\ invs[i].pc = "write"
    /\ \A d \in DOMAIN invs[i].tasks : invs[i].tasks[d].pc = "done"
    /\ pendingServiceMetrics' = invs[i].failed
    /\ muPending' = "free"
    /\ invs' = [invs EXCEPT ![i].pc = "returned"]
    /\ UNCHANGED <<clock, APIURL, svcmackerel, pendingHostMetrics, inv, fctx,
                   tasks, ctxDone, post, call, mu>>

\* the goroutines a concurrent invocation may start
ConcurrentTasks == {ServiceTask(SvcA), ServiceTask(SvcB)}

\* the steps of the call of ForwardMetrics itself, after its start
Thread(i) ==
    \/ ServiceClient(i)
    \/ MackerelLock(i)
    \/ \E keyFound \in BOOLEAN : ResolveKey(i, keyFound)
    \/ PendingLock(i)
    \/ \E got \in BOOLEAN : FetchConcurrent(i, got)
    \/ WriteBack(i)

\* the steps of one goroutine of publishMetric
Goroutine(i, d) ==
    \/ \E delivered \in BOOLEAN : TaskPostConcurrent(i, d, delivered)
    \/ TaskLockConcurrent(i, d)
    \/ TaskSaveConcurrent(i, d)

NextConcurrent ==
    \E i \in DOMAIN invs :
       \/ StartConcurrent(i)
       \/ Thread(i)
       \/ \E d \in ConcurrentTasks : Goroutine(i, d)

SpecConcurrent == InitConcurrent /\ [][NextConcurrent]_vars

\* Every call a thread or goroutine waits for returns (apiKey, the fetch,
\* Post), a thread that can run does run, and a sync.Mutex that is free
\* again and again is at last given to each of its waiters. No caller has
\* to call ForwardMetrics.
FairConcurrent ==
    \A i \in 1..MaxConcurrent :
       /\ SF_vars(Thread(i))
       /\ \A d \in ConcurrentTasks : SF_vars(Goroutine(i, d))

SpecConcurrentFair == SpecConcurrent /\ FairConcurrent

----------------------------------------------------------------------------
(* query.go: ToMetricDataQuery on specs with many dimensions               *)

\* token lists that fill the slot table or nearly so, and longer ones; the
\* tokens are all "." or all the same string
LongMetrics ==
    {[k \in 1..n |-> t] : n \in (MetricSlots - 2)..MaxTokens,
                          t \in {Dot, <<"d">>}}

LongSpecs ==
    {Query(d[1], d[2], MetricM, m, <<"S">>) :
       d \in SpecDestinations, m \in LongMetrics}

NextSlots ==
    /\ call.op = "none"
    /\ \E k \in 1..MaxLongSpecs : \E query \in [1..k -> LongSpecs] :
         CallToMetricDataQuery(query)

SpecSlots == InitCall /\ [][NextSlots]_vars

----------------------------------------------------------------------------
(* forwarder.go: getMetricsData against a scripted paginator               *)

\* the labels of the rows of a scripted page: a service label, a host label
\* and a string that does not decode
FetchLabels ==
    {LabelString(Label(SvcA, <<>>, MetricM)),
     LabelString(Label(<<>>, HostH, MetricM)), <<"x">>}

\* the rows of a scripted page, for the window of the first invocation
FetchRows ==
    [label : FetchLabels,
     points : SeqsUpTo([t : {WindowStart(StartClock)}, v : ReportedValues(1)],
                       MaxPoints)]

\* the pages the paginator hands out, in order
FetchScripts ==
    UNION {[1..k -> SeqsUpTo(FetchRows, MaxFetchRows)] : k \in 1..MaxPages}

\* the first invocation has entered getMetricsData with nothing pending;
\* ToMetricDataQuery has returned call.defaults and the paginator is going
\* to answer with the pages of call.pages
InitFetch ==
    /\ clock = StartClock
    /\ APIURL = ""
    /\ svcmackerel = [set |-> TRUE, BaseURL |-> "default"]
    /\ muPending = "held"
    /\ pendingServiceMetrics = EmptyServiceMetrics
    /\ pendingHostMetrics = <<>>
    /\ \E defaults \in DefaultsChoices, pages \in FetchScripts :
         /\ inv = [ZeroInvocation EXCEPT !.pc = "fetch", !.n = 1,
                                         !.now = StartClock,
                                         !.defaults = defaults, !.more = TRUE]
         /\ call = [op |-> "pages", pages |-> pages, defaults |-> defaults]
    /\ fctx = [ZeroContext EXCEPT
                 !.start = WindowStart(StartClock),
                 !.end = WindowStart(StartClock) + MinuteSeconds]
    /\ tasks = NoTasks
    /\ ctxDone = FALSE
    /\ post = PostStart(0)
    /\ mu = {}
    /\ invs = NoInvocations

\* the page NextPage returns next
ScriptedPage == call.pages[inv.pages + 1]

NextFetch ==
    \/ \E expired \in BOOLEAN : NextPageError(expired)
    \/ /\ inv.pages < Len(call.pages)
       /\ NextPage(ScriptedPage, inv.pages + 1 < Len(call.pages))
    \/ \E order \in Orders(DOMAIN inv.defaults) : FetchDefaults(order)

SpecFetch == InitFetch /\ [][NextFetch]_vars

----------------------------------------------------------------------------
(* Properties                                                              *)

Range(seq) == {seq[i] : i \in 1..Len(seq)}

\* the identity keys of the entries of a service map and of a host slice
ServiceKeys(m) ==
    UNION {{[kind |-> "service", dest |-> s, name |-> e.Name, time |-> e.Time] :
              e \in Range(m[s])} : s \in DOMAIN m}

HostKeys(h) ==
    {[kind |-> "host", dest |-> e.HostID, name |-> e.Name, time |-> e.Time] :
       e \in Range(h)}

\* the goroutine that delivers the entry with key k
KeyTask(k) == IF k.kind = "service" THEN ServiceTask(k.dest) ELSE HostTask

\* the keys the system holds: those of the working set while an invocation
\* works on it, those of the pending buffer otherwise
Held ==
    IF inv.pc \in {"fetch", "publish", "wait"}
    THEN ServiceKeys(fctx.serviceMetrics) \cup HostKeys(fctx.hostMetrics)
    ELSE ServiceKeys(pendingServiceMetrics) \cup HostKeys(pendingHostMetrics)

\* the invocation has returned from the end of forwardMetrics
Delivered == inv.pc = "returned" /\ inv.exit = "end"

\* the earliest time an entry may carry and stay, in the invocation at hand
Horizon == inv.now - RetentionSeconds

\* C1: a value the system holds (pending or in the working set) leaves it
\* only in the step that ends an invocation, when the goroutine of its
\* destination posted its batch with success, or in the step that starts the
\* work on the pending buffer, when it is older than the retention horizon;
\* after a failed delivery it stays.
C1_LeavesOnlyDeliveredOrExpired ==
    [][\A k \in Held :
         \/ k \in Held'
         \/ /\ inv.pc = "wait" /\ inv'.pc = "returned"
            /\ KeyTask(k) \in DOMAIN tasks
            /\ tasks[KeyTask(k)].outcome = "ok"
         \/ /\ inv.pc = "lock" /\ inv'.pc = "fetch"
            /\ k.time < inv.now - RetentionSeconds]_vars

\* a value of the first window is still pending after the second invocation
\* failed to deliver it again
C1_Witness ==
    /\ Delivered
    /\ inv.n = 2
    /\ \E k \in Held : k.time = WindowStart(StartClock)
                       /\ tasks[KeyTask(k)].outcome = "failed"

\* C2: after an invocation that reached the delivery phase, the pending
\* buffer holds the whole batch of every destination whose goroutine failed,
\* nothing of a destination whose goroutine succeeded, and nothing else.
C2_PendingIsTheFailedBatches ==
    Delivered =>
      /\ \A s \in DOMAIN fctx.serviceMetrics :
           /\ tasks[ServiceTask(s)].outcome = "failed" =>
                /\ s \in DOMAIN pendingServiceMetrics
                /\ Range(pendingServiceMetrics[s]) = Range(fctx.serviceMetrics[s])
           /\ tasks[ServiceTask(s)].outcome = "ok" =>
                s \notin DOMAIN pendingServiceMetrics
      /\ DOMAIN pendingServiceMetrics \subseteq DOMAIN fctx.serviceMetrics
      /\ HostTask \in DOMAIN tasks =>
           /\ tasks[HostTask].outcome = "failed" =>
                Range(pendingHostMetrics) = Range(fctx.hostMetrics)
           /\ tasks[HostTask].outcome = "ok" => pendingHostMetrics = <<>>
      /\ HostTask \notin DOMAIN tasks => pendingHostMetrics = <<>>

\* one service failed and is pending, another succeeded and is not, and the
\* host batch failed and is pending
C2_Witness ==
    /\ Delivered
    /\ \E s, t \in DOMAIN fctx.serviceMetrics :
         /\ tasks[ServiceTask(s)].outcome = "failed"
         /\ tasks[ServiceTask(t)].outcome = "ok"
         /\ s \in DOMAIN pendingServiceMetrics
    /\ HostTask \in DOMAIN tasks
    /\ tasks[HostTask].outcome = "failed"
    /\ pendingHostMetrics # <<>>

\* the working set right after the pending buffer was taken over, before
\* the first page is read
BeforeMerge == inv.pc = "fetch" /\ inv.pages = 0 /\ inv.more

\* C3: before any fetched value is merged, no carried-over entry older than
\* the retention horizon is left, neither in the host collection nor in a
\* per-service collection.
C3_ExpiredBeforeMerge ==
    BeforeMerge =>
      \A k \in ServiceKeys(fctx.serviceMetrics) \cup HostKeys(fctx.hostMetrics) :
         k.time >= Horizon

\* the destinations of the working set
Destinations == TasksOf(fctx.serviceMetrics, fctx.hostMetrics)

\* the goroutine of destination d ran to its end
Attempted(d) == d \in DOMAIN tasks /\ tasks[d].outcome \in {"ok", "failed"}

\* the batch of destination d is in the pending buffer
Requeued(d) ==
    IF d.kind = "service"
    THEN /\ d.service \in DOMAIN pendingServiceMetrics
         /\ Range(fctx.serviceMetrics[d.service])
              \subseteq Range(pendingServiceMetrics[d.service])
    ELSE Range(fctx.hostMetrics) \subseteq Range(pendingHostMetrics)

\* C4: once getMetricsData has returned an error, the invocation is in its
\* delivery phase or has ended it, and then the goroutine of every
\* destination of the working set (carried-over and fetched values) has run.
C4_FetchErrorStillPublishes ==
    (inv.err # NilError /\ inv.pc # "fetch") =>
      \/ inv.pc \in {"publish", "wait"}
      \/ Delivered /\ \A d \in Destinations : Attempted(d)

\* a retrieval error in the second invocation, and a value carried over
\* from the first window was delivered all the same
C4_Witness ==
    /\ Delivered
    /\ inv.err.kind = "retrieval"
    /\ clock > StartClock
    /\ \E k \in ServiceKeys(fctx.serviceMetrics) \cup HostKeys(fctx.hostMetrics) :
         /\ k.time = WindowStart(StartClock)
         /\ tasks[KeyTask(k)].outcome = "ok"

\* C5: an invocation that went through the fetch phase returns the error of
\* getMetricsData, nil included, whatever the goroutines came to.
C5_ReturnsFetchError == Delivered => inv.ret = inv.err

\* nil is returned although a delivery failed
C5_Witness ==
    /\ Delivered
    /\ inv.ret = NilError
    /\ \E d \in DOMAIN tasks : tasks[d].outcome = "failed"

\* C6: at the end of the delivery phase every destination of the working
\* set has had its goroutine run to the end, and the batch of every
\* destination that failed is pending again, whatever the others came to.
C6_DeliveryIsolated ==
    Delivered =>
      \A d \in Destinations :
         /\ Attempted(d)
         /\ tasks[d].outcome = "failed" => Requeued(d)

\* two services failed and are both pending again while the host batch was
\* delivered
C6_Witness ==
    /\ Delivered
    /\ DOMAIN tasks = AllTasks
    /\ \A d \in AllTasks :
          /\ tasks[d].pc = "done"
          /\ tasks[d].outcome = IF d = HostTask THEN "ok" ELSE "failed"
    /\ DOMAIN pendingServiceMetrics = {SvcA, SvcB}
    /\ pendingHostMetrics = <<>>

\* the failures of the call so far were all retryable statuses
OnlyRetryableStatuses ==
    /\ post.hist["otherStatus"] = 0
    /\ post.hist["transportTemporary"] = 0
    /\ post.hist["transportPermanent"] = 0
    /\ post.hist["marshal"] = 0

\* how many 5xx and 429 answers the call has seen
RetryableFailures == post.hist["5xx"] + post.hist["429"]

\* C7: in a call with a non-empty batch whose failures were all 5xx or 429
\* answers, k of them, a 2xx answer ends the call with success after k + 1
\* POST requests; and after fewer than MaxCount such failures, with the
\* context alive, the call has not given up.
C7_SuccessAfterRetries ==
    (post.batchLen > 0 /\ OnlyRetryableStatuses) =>
      /\ post.hist["2xx"] > 0 =>
           /\ post.done
           /\ post.ret = NilError
           /\ post.hist["2xx"] = 1
           /\ post.posts = RetryableFailures + 1
      /\ (post.hist["2xx"] = 0 /\ RetryableFailures < MaxCount /\ ~ctxDone) =>
           ~post.done

\* a 500 answer and then a 200 answer: success after 2 requests
C7_Witness ==
    /\ post.done
    /\ post.ret = NilError
    /\ post.hist["5xx"] = 1
    /\ post.hist["429"] = 0
    /\ post.posts = 2

\* C8: a call never sends more than MaxCount requests; when every answer
\* was a 5xx or 429 and the context stayed alive, the call returns after
\* exactly MaxCount requests, with the last error and its status code.
C8_ExhaustsBudget ==
    /\ post.posts <= MaxCount
    /\ (post.done /\ post.batchLen > 0 /\ OnlyRetryableStatuses
        /\ post.hist["2xx"] = 0 /\ ~ctxDone) =>
         /\ post.posts = MaxCount
         /\ post.ret = post.err
         /\ post.ret.kind = "Error"
         /\ post.ret.StatusCode = post.last.code

\* ten 429 answers: the call returns the 429 error
C8_Witness ==
    /\ post.done
    /\ post.hist["429"] = MaxCount
    /\ post.posts = MaxCount
    /\ post.ret.kind = "Error"
    /\ post.ret.StatusCode = StatusTooManyRequests

\* C9: a status that is neither 2xx nor 5xx nor 429 ends the call at once:
\* it is the last answer of the call, the returned error carries its code
\* and body, and when it was the first answer one request was sent in all.
C9_FatalStatusStops ==
    post.hist["otherStatus"] > 0 =>
      /\ post.done
      /\ post.hist["otherStatus"] = 1
      /\ ClassOf(post.last) = "otherStatus"
      /\ post.ret.kind = "Error"
      /\ post.ret.StatusCode = post.last.code
      /\ post.ret.Message = post.last.body
      /\ post.count = 1 => post.posts = 1

\* a 403 answer with the body "forbidden" to the first request
C9_Witness ==
    /\ post.done
    /\ post.posts = 1
    /\ post.ret.kind = "Error"
    /\ post.ret.StatusCode = 403
    /\ post.ret.Message = "forbidden"

C11_EmptyBatchNoOp ==
    post.batchLen = 0 =>
      /\ post.done
      /\ post.ret = NilError
      /\ post.count = 0
      /\ post.posts = 0

\* a call with an empty batch that has returned
C11_Witness ==
    /\ post.batchLen = 0
    /\ post.done
    /\ post.ret = NilError
    /\ post.posts = 0

\* a Label with exactly one of Service and HostID and with a MetricName
OneDestination(l) ==
    /\ (l.Service = <<>>) # (l.HostID = <<>>)
    /\ l.MetricName # <<>>

\* C12, as claimed: every Label with exactly one of Service and HostID and
\* with a MetricName comes back from ParseLabel(l.String()) without error
\* and equal to itself.
C12_RoundTripEveryLabel ==
    (call.op = "RoundTrip" /\ OneDestination(call.in)) =>
      /\ ~call.out.err
      /\ call.out.label = call.in

\* C12, amended: such a Label whose Service and HostID hold no ':' comes
\* back from ParseLabel(l.String()) without error and equal to itself.
C12_RoundTripNoColonInId ==
    (/\ call.op = "RoundTrip"
     /\ OneDestination(call.in)
     /\ ":" \notin Range(call.in.Service) \cup Range(call.in.HostID)) =>
      /\ ~call.out.err
      /\ call.out.label = call.in

\* a host label whose id holds '=' and whose metric name holds ':' came back
C12_Witness ==
    /\ call.op = "RoundTrip"
    /\ call.in = Label(<<>>, <<"a", "=">>, <<":", "a">>)
    /\ call.str = KwHost \o <<"=", "a", "=", ":", ":", "a">>
    /\ ~call.out.err
    /\ call.out.label = call.in

\* the part of s left of its first ':' (all of s when it has none)
LeftOfColon(s) ==
    LET colons == {i \in 1..Len(s) : s[i] = ":"}
    IN IF colons = {} THEN s
       ELSE SubSeq(s, 1, (CHOOSE i \in colons : \A j \in colons : i <= j) - 1)

\* the part of l left of its first '=' (all of l when it has none)
LeftOfEquals(l) ==
    LET eqs == {i \in 1..Len(l) : l[i] = "="}
    IN IF eqs = {} THEN l
       ELSE SubSeq(l, 1, (CHOOSE i \in eqs : \A j \in eqs : i <= j) - 1)

\* the strings C13 lists
Malformed(s) ==
    \/ s = <<>>
    \/ ":" \notin Range(s)
    \/ s[1] = ":"
    \/ "=" \notin Range(LeftOfColon(s))
    \/ LeftOfColon(s)[1] = "="
    \/ LeftOfEquals(LeftOfColon(s)) \notin {KwService, KwHost}

\* C13: ParseLabel returns an error for the empty string, a string without
\* ':', a string that starts with ':', a string whose part left of the first
\* ':' has no '=' or starts with '=', and a string whose id name is neither
\* "service" nor "host".
C13_RejectsMalformed ==
    (call.op = "ParseLabel" /\ Malformed(call.in)) => call.out.err

\* "z=a:a", an unknown id name, was rejected
C13_Witness ==
    /\ call.op = "ParseLabel"
    /\ call.in = <<"z", "=", "a", ":", "a">>
    /\ call.out.err

\* C14: a Label that ParseLabel returns without error has exactly one of
\* Service and HostID and has a MetricName.
C14_ParsedLabelsValid ==
    (call.op = "ParseLabel" /\ ~call.out.err) => OneDestination(call.out.label)

\* stands for a token no spec has given
Missing == <<"(missing)">>

\* The value a token stands for by the rule of ".": toks are the tokens the
\* specs of a list, up to the one in question, give in one slot (Missing
\* where a spec gives none). A token that is not "." stands for itself, "."
\* for the last token before it that is not ".", and for nothing (Missing)
\* when there is none.
MostRecent(toks) ==
    LET n == Len(toks)
        given == {j \in 1..(n - 1) : toks[j] \notin {Dot, Missing}}
    IN IF toks[n] # Dot THEN toks[n]
       ELSE IF given = {} THEN Missing
       ELSE toks[CHOOSE j \in given : \A h \in given : h <= j]

\* the token of spec q in slot k of its token list (0 the namespace, 1 the
\* metric name, then the names and values of the dimensions); a dimension
\* counts when its name and its value are both there
MetricToken(q, k) ==
    IF (k - (k % 2)) + 1 < Len(q.Metric) THEN q.Metric[k + 1] ELSE Missing

\* service, host and statistic of the i-th spec of a list by the rule of "."
ResolvedService(query, i) ==
    MostRecent([j \in 1..i |-> query[j].Service])

ResolvedHost(query, i) == MostRecent([j \in 1..i |-> query[j].Host])

ResolvedStat(query, i) == MostRecent([j \in 1..i |-> query[j].Stat])

\* the token in slot k of the i-th spec of a list by the rule of "."
ResolvedMetric(query, i, k) ==
    MostRecent([j \in 1..i |-> MetricToken(query[j], k)])

\* v where a value is known, anything where none is
Stands(expected, v) == expected = Missing \/ expected = v

\* the query r carries what the i-th spec of the list stands for
Carries(query, i, r) ==
    LET q == query[i]
        sv == ResolvedService(query, i)
        h == ResolvedHost(query, i)
        pairs == {n \in 1..MetricSlots : 2 * n + 1 < Len(q.Metric)}
    IN /\ (sv # Missing /\ h # Missing) =>
            r.Label = LabelString(Label(sv, h, q.Name))
       /\ Stands(ResolvedStat(query, i), r.Stat)
       /\ Stands(ResolvedMetric(query, i, 0), r.Namespace)
       /\ Stands(ResolvedMetric(query, i, 1), r.MetricName)
       /\ Len(r.Dimensions) = Cardinality(pairs)
       /\ \A n \in pairs :
            /\ Stands(ResolvedMetric(query, i, 2 * n), r.Dimensions[n].Name)
            /\ Stands(ResolvedMetric(query, i, 2 * n + 1),
                      r.Dimensions[n].Value)

\* C15: when ToMetricDataQuery has emitted a query for every spec of its
\* list, the query of each spec carries, for service, host, statistic,
\* namespace, metric name and every dimension name and value, the token
\* itself when it is not "." and else the last token before it in the same
\* slot that is not ".".
C15_DotRepeatsMostRecent ==
    (/\ call.op = "ToMetricDataQuery"
     /\ ~call.out.panic
     /\ Len(call.out.ret) = Len(call.in)) =>
      \A i \in 1..Len(call.in) : Carries(call.in, i, call.out.ret[i])

\* three specs: the third repeats the service, the namespace, the metric
\* name and the dimension name of the second, not of the first
C15_Witness ==
    /\ call.op = "ToMetricDataQuery"
    /\ Len(call.in) = 3
    /\ Len(call.out.ret) = 3
    /\ call.in[1].Service = SvcA /\ call.in[1].Metric = <<<<"n">>, <<"x">>>>
    /\ call.in[2].Service = SvcB
    /\ call.in[2].Metric = <<<<"o">>, <<"y">>, <<"d">>, <<"v">>>>
    /\ call.in[3].Service = Dot
    /\ call.in[3].Metric = <<Dot, Dot, Dot, <<"w">>>>
    /\ call.out.ret[3].Label = LabelString(Label(SvcB, <<>>, call.in[3].Name))
    /\ call.out.ret[3].Namespace = <<"o">>
    /\ call.out.ret[3].MetricName = <<"y">>
    /\ call.out.ret[3].Dimensions = <<[Name |-> <<"d">>, Value |-> <<"w">>]>>

\* service and host of the i-th spec as the compiler sees them: "." with
\* nothing before it stands for the empty string
DestinationService(query, i) ==
    IF ResolvedService(query, i) = Missing THEN <<>>
    ELSE ResolvedService(query, i)

DestinationHost(query, i) ==
    IF ResolvedHost(query, i) = Missing THEN <<>> ELSE ResolvedHost(query, i)

\* the i-th spec of the list has exactly one destination
HasOneDestination(query, i) ==
    (DestinationService(query, i) = <<>>) # (DestinationHost(query, i) = <<>>)

\* the places in the list of the specs with exactly one destination
Emitting(query) == {i \in 1..Len(query) : HasOneDestination(query, i)}

\* the k-th smallest member of a set of numbers
KthSmallest(S, k) ==
    CHOOSE x \in S : Cardinality({y \in S : y < x}) = k - 1

\* C16: when a list holds a spec with both destinations or none,
\* ToMetricDataQuery returns without error and without a crash, and its
\* result holds one query for each spec with exactly one destination, in the
\* order of the list.
C16_SkipDoesNotStop ==
    (/\ call.op = "ToMetricDataQuery"
     /\ \E i \in 1..Len(call.in) : ~HasOneDestination(call.in, i)) =>
      /\ ~call.out.panic
      /\ ~call.out.err
      /\ Len(call.out.ret) = Cardinality(Emitting(call.in))
      /\ \A k \in 1..Len(call.out.ret) :
           LET i == KthSmallest(Emitting(call.in), k)
           IN call.out.ret[k].Label =
                LabelString(Label(DestinationService(call.in, i),
                                  DestinationHost(call.in, i),
                                  call.in[i].Name))

\* C17, as claimed: the k-th query of the result has the id "m<k>".
C17_IdCountsEmitted ==
    (call.op = "ToMetricDataQuery" /\ ~call.out.panic) =>
      \A k \in 1..Len(call.out.ret) :
         call.out.ret[k].Id = <<"m">> \o Itoa(k)

\* C17, amended: the k-th query of the result has the id "m<p>", p the place
\* in the list, counted from 1 over all its specs, of the k-th spec with
\* exactly one destination.
C17_IdIsPlaceInList ==
    (call.op = "ToMetricDataQuery" /\ ~call.out.panic) =>
      /\ Len(call.out.ret) = Cardinality(Emitting(call.in))
      /\ \A k \in 1..Len(call.out.ret) :
           call.out.ret[k].Id =
             <<"m">> \o Itoa(KthSmallest(Emitting(call.in), k))

\* a spec without destination, a skipped one and then a spec with a service:
\* the two queries have the ids "m1" and "m3"
C17_Witness ==
    /\ call.op = "ToMetricDataQuery"
    /\ Len(call.in) = 3
    /\ Emitting(call.in) = {1, 3}
    /\ Len(call.out.ret) = 2
    /\ call.out.ret[1].Id = <<"m", "1">>
    /\ call.out.ret[2].Id = <<"m", "3">>

\* C18: when a spec with exactly one destination has fewer than 2 tokens,
\* ToMetricDataQuery returns without a crash and without error.
C18_ShortMetricReturns ==
    (/\ call.op = "ToMetricDataQuery"
     /\ \E i \in 1..Len(call.in) :
          HasOneDestination(call.in, i) /\ Len(call.in[i].Metric) < 2) =>
      /\ ~call.out.panic
      /\ ~call.out.err

\* C19: the label of every query of the result is one ParseLabel takes: it
\* yields, without error, the service or the host of the spec and its
\* destination metric name, and that name is not empty.
C19_EmittedLabelsDecode ==
    (call.op = "ToMetricDataQuery" /\ ~call.out.panic) =>
      \A k \in 1..Len(call.out.ret) :
         LET i == KthSmallest(Emitting(call.in), k)
             parsed == ParseLabel(call.out.ret[k].Label)
         IN /\ ~parsed.err
            /\ parsed.label = Label(DestinationService(call.in, i),
                                    DestinationHost(call.in, i),
                                    call.in[i].Name)
            /\ OneDestination(parsed.label)

\* What C20 says of a slice before and after the Append of v, hits being
\* the places of the entries with the key of v: with the key in the slice,
\* the size is the same and the entry of the key is v; without it, the slice
\* is one longer and v is in it; every other entry is where and what it was.
AppendedTo(before, after, v, hits) ==
    /\ Len(after) = IF hits # {} THEN Len(before) ELSE Len(before) + 1
    /\ \A i \in hits : after[i] = v
    /\ v \in Range(after)
    /\ \A i \in (1..Len(before)) \ hits : after[i] = before[i]

\* the places in a slice of the service entries with the name and time of v
ServiceHits(metrics, v) ==
    {i \in 1..Len(metrics) :
       metrics[i].Name = v.Name /\ metrics[i].Time = v.Time}

\* the places in a slice of the host entries with the host id, name and time
\* of v
HostHits(metrics, v) ==
    {i \in 1..Len(metrics) :
       /\ metrics[i].HostID = v.HostID
       /\ metrics[i].Name = v.Name
       /\ metrics[i].Time = v.Time}

\* C20: an Append of a value whose key (service, name, time) or (host id,
\* name, time) is in the collection puts the value in the place of the
\* stored one and leaves the size as it was; an Append of a value with a new
\* key makes the collection one longer and changes no entry. The slices of
\* the other services and the other collection stay as they were.
C20_AppendOverwritesByKey ==
    /\ call.op = "ServiceAppend" =>
         LET before == MapGet(call.servicesBefore, call.service)
         IN /\ AppendedTo(before, MapGet(call.services, call.service),
                          call.v, ServiceHits(before, call.v))
            /\ \A s \in DOMAIN call.servicesBefore \ {call.service} :
                 MapGet(call.services, s) = call.servicesBefore[s]
            /\ DOMAIN call.services
                 = DOMAIN call.servicesBefore \cup {call.service}
            /\ call.hosts = call.hostsBefore
    /\ call.op = "HostAppend" =>
         /\ AppendedTo(call.hostsBefore, call.hosts, call.v,
                       HostHits(call.hostsBefore, call.v))
         /\ call.services = call.servicesBefore

\* the third Append on a service brings another value for the key of the
\* first: two entries as before, the first with the new value
C20_Witness ==
    /\ call.op = "ServiceAppend"
    /\ call.n = 3
    /\ Len(MapGet(call.servicesBefore, call.service)) = 2
    /\ ServiceHits(call.servicesBefore[call.service], call.v) = {1}
    /\ call.servicesBefore[call.service][1].Value # call.v.Value
    /\ Len(call.services[call.service]) = 2
    /\ call.services[call.service][1] = call.v

\* What C21 says of a slice before and after Drop(unix): the entries left
\* are the entries at or after unix, each as it was and as often as it was
\* there, and no entry older than unix is left.
DroppedFrom(before, after, unix) ==
    /\ \A e \in Range(after) : e \in Range(before) /\ e.Time >= unix
    /\ \A e \in Range(before) : e.Time >= unix => e \in Range(after)
    /\ \A e \in Range(after) :
         Cardinality({i \in 1..Len(after) : after[i] = e})
           = Cardinality({i \in 1..Len(before) : before[i] = e})

\* the number of entries of a service collection, over all services
ServiceSize(m) ==
    Cardinality(UNION {{<<s, i>> : i \in 1..Len(m[s])} : s \in DOMAIN m})

\* C21: Drop(threshold) removes the entries whose time is before the
\* threshold and no other, keeps every entry at or after the threshold as it
\* was, and returns the size before minus the size after, on the host
\* collection and on every service of the service collection; the other
\* collection stays as it was.
C21_DropRemovesOlder ==
    /\ call.op = "ServiceDrop" =>
         /\ \A s \in DOMAIN call.servicesBefore :
              DroppedFrom(call.servicesBefore[s], MapGet(call.services, s),
                          call.unix)
         /\ DOMAIN call.services \subseteq DOMAIN call.servicesBefore
         /\ call.cnt
              = ServiceSize(call.servicesBefore) - ServiceSize(call.services)
         /\ call.hosts = call.hostsBefore
    /\ call.op = "HostDrop" =>
         /\ DroppedFrom(call.hostsBefore, call.hosts, call.unix)
         /\ call.cnt = Len(call.hostsBefore) - Len(call.hosts)
         /\ call.services = call.servicesBefore

\* a Drop on two services, one with an entry at the threshold and one with
\* an older entry only: one entry is removed and one is kept
C21_Witness ==
    /\ call.op = "ServiceDrop"
    /\ DOMAIN call.servicesBefore = {SvcA, SvcB}
    /\ \E s \in {SvcA, SvcB} :
         /\ call.servicesBefore[s][1].Time = call.unix
         /\ MapGet(call.services, s) = call.servicesBefore[s]
    /\ \E s \in {SvcA, SvcB} :
         /\ call.servicesBefore[s][1].Time < call.unix
         /\ s \notin DOMAIN call.services
    /\ call.cnt = 1

\* the slice of a working set that holds the values of a label's destination
WorkingOf(fc, label) ==
    IF label.Service # <<>> THEN MapGet(fc.serviceMetrics, label.Service)
    ELSE fc.hostMetrics

\* the places in a slice of the entries for a label's metric at time t
PlacesOf(metrics, label, t) ==
    {i \in 1..Len(metrics) :
       /\ metrics[i].Name = label.MetricName
       /\ metrics[i].Time = t
       /\ label.Service = <<>> => metrics[i].HostID = label.HostID}

\* C22: when getMetricsData returns without error, every label with a
\* default that came with no datapoint has one entry in the working set of
\* its destination for its metric name at the window start, no more, and
\* that entry carries the default value; the entries of the destination for
\* other names and times are what they were before the defaults were
\* applied.
C22_DefaultFillsGap ==
    [][(inv.pc = "fetch" /\ ~inv.more /\ inv'.err = NilError) =>
         \A l \in DOMAIN inv.defaults \ inv.seen :
           LET label == ParseLabel(l).label
               before == WorkingOf(fctx, label)
               after == WorkingOf(fctx', label)
               places == PlacesOf(after, label, fctx.start)
           IN /\ Cardinality(places) = 1
              /\ \A i \in places : after[i].Value = inv.defaults[l]
              /\ \A i \in (1..Len(before))
                          \ PlacesOf(before, label, fctx.start) :
                   after[i] = before[i]
              /\ Len(after) = IF PlacesOf(before, label, fctx.start) = {}
                              THEN Len(before) + 1 ELSE Len(before)]_vars

\* the fetch is over without error and without a datapoint for service a,
\* whose working set was empty: it holds the default value at the window
\* start and nothing else
C22_Witness ==
    /\ inv.pc = "publish"
    /\ inv.err = NilError
    /\ MapGet(fctx.serviceMetrics, SvcA)
         = <<ServiceMetricValue(MetricM, fctx.start, DefaultValue)>>

\* the errors paginator.NextPage returns
RetrievalErrors == {ContextError, ErrorValue("retrieval", 0, "", FALSE)}

\* C23: the step in which the retrieval of a page fails ends the fetch with
\* that error and leaves the working set as the pages before and the
\* carried-over values made it; the delivery that follows starts one task
\* for every destination of that working set, and the working set is what
\* the tasks post.
C23_FailedPageKeepsEarlierValues ==
    [][/\ (inv.pc = "fetch" /\ inv'.err \in RetrievalErrors) =>
            /\ inv'.pc = "publish"
            /\ fctx'.serviceMetrics = fctx.serviceMetrics
            /\ fctx'.hostMetrics = fctx.hostMetrics
       /\ (inv.pc = "publish" /\ inv.err \in RetrievalErrors
             /\ inv'.pc = "wait") =>
            /\ fctx' = fctx
            /\ \A s \in DOMAIN fctx.serviceMetrics :
                 /\ ServiceTask(s) \in DOMAIN tasks'
                 /\ tasks'[ServiceTask(s)].pc = "post"
            /\ Len(fctx.hostMetrics) > 0 =>
                 /\ HostTask \in DOMAIN tasks'
                 /\ tasks'[HostTask].pc = "post"]_vars

\* the second invocation failed on its second page: the delivery runs with
\* the value of the first page for service a and a carried-over value
C23_Witness ==
    /\ inv.pc = "wait"
    /\ inv.n = 2
    /\ inv.err = ErrorValue("retrieval", 0, "", FALSE)
    /\ \E i \in 1..Len(MapGet(fctx.serviceMetrics, SvcA)) :
         /\ fctx.serviceMetrics[SvcA][i].Time = fctx.start
         /\ fctx.serviceMetrics[SvcA][i].Value = 2
    /\ \E e \in Range(MapGet(fctx.serviceMetrics, SvcB))
                 \cup Range(fctx.hostMetrics) : e.Time < fctx.start
    /\ \A d \in TasksOf(fctx.serviceMetrics, fctx.hostMetrics) :
         d \in DOMAIN tasks

\* C24 as stated: an invocation whose deadline expired, in the fetch or in
\* the delivery, returns the deadline error.
C24_DeadlineErrorReturned ==
    (inv.pc = "returned" /\ inv.exit = "end" /\ ctxDone) =>
        inv.ret = ContextError

\* C24, amended: a deadline that expires during the pagination ends the
\* fetch with the deadline error, and that is what the invocation returns; a
\* delivery call the deadline expires in, or finds expired, is over with an
\* error and its batch goes to the failed ones; the invocation returns the
\* error of the fetch, nil when the fetch went well, whatever the deadline
\* did to the delivery.
C24_DeadlineAbortsFetchErrorReturned ==
    [][/\ (inv.pc = "fetch" /\ ~ctxDone /\ ctxDone') =>
            /\ inv'.err = ContextError
            /\ inv'.pc = "publish"
       /\ \A d \in DOMAIN tasks :
            (tasks[d].pc = "post" /\ tasks'[d].pc # "post" /\ ctxDone') =>
                /\ tasks'[d].pc = "lock"
                /\ tasks'[d].outcome = "failed"
       /\ (inv.pc = "wait" /\ inv'.pc = "returned") =>
            inv'.ret = inv.err]_vars

\* the fetch went well, the deadline expired in the delivery: the batch of
\* service a is pending again and the invocation returned nil
C24_Witness ==
    /\ inv.pc = "returned"
    /\ inv.exit = "end"
    /\ ctxDone
    /\ inv.err = NilError
    /\ inv.ret = NilError
    /\ SvcA \in DOMAIN pendingServiceMetrics

\* an invocation that has its forwardContext
HasWindow == inv.pc \in {"fetch", "publish", "wait"}

\* C25 as stated: the window ends two minutes before the minute of now and
\* starts one minute before its end.
C25_WindowEndsTwoMinutesBack ==
    HasWindow =>
        /\ fctx.end = Truncate(inv.now, MinuteSeconds) - 2 * MinuteSeconds
        /\ fctx.start = fctx.end - MinuteSeconds

\* C25, amended: the window starts two minutes before the minute of now,
\* that is on a minute boundary at least two and less than three minutes
\* before now, and ends one minute after its start.
C25_WindowStartsTwoMinutesBack ==
    HasWindow =>
        /\ fctx.start % MinuteSeconds = 0
        /\ fctx.start <= inv.now - 2 * MinuteSeconds
        /\ fctx.start > inv.now - 3 * MinuteSeconds
        /\ fctx.end = fctx.start + MinuteSeconds

\* an invocation half a minute after a minute boundary: the window is the
\* minute that began two and a half minutes before now
C25_Witness ==
    /\ inv.pc = "fetch"
    /\ inv.now % MinuteSeconds = 30
    /\ fctx.start = inv.now - 150
    /\ fctx.end = inv.now - 90

\* C26: the step in which f.mackerel fails ends the invocation with an
\* error; no forwardContext was made, so no page was fetched, no delivery
\* task was started, and the pending collections and their lock are as they
\* were. Nothing happens after it but the next invocation.
C26_ConfigFailureStopsInvocation ==
    [][/\ (inv.pc = "config" /\ inv'.exit = "config") =>
            /\ inv'.pc = "returned"
            /\ inv'.ret = ErrorValue("config", 0, "", FALSE)
            /\ fctx = ZeroContext /\ fctx' = ZeroContext
            /\ tasks = NoTasks /\ tasks' = NoTasks
            /\ pendingServiceMetrics' = pendingServiceMetrics
            /\ pendingHostMetrics' = pendingHostMetrics
            /\ muPending' = muPending
       /\ inv.exit = "config" =>
            /\ inv'.n = inv.n + 1
            /\ pendingServiceMetrics' = pendingServiceMetrics
            /\ pendingHostMetrics' = pendingHostMetrics]_vars

\* an invocation has returned because no API key was found
C26_Witness ==
    /\ inv.pc = "returned"
    /\ inv.exit = "config"
    /\ ~svcmackerel.set
    /\ inv.ret = ErrorValue("config", 0, "", FALSE)
    /\ fctx = ZeroContext

\* the values of the four sources of a call of apiKey, in the order of
\* KeySources
SourceValues ==
    <<call.f.APIKey, call.f.APIKeyParameter, call.env.MACKEREL_APIKEY,
      call.env.MACKEREL_APIKEY_PARAMETER>>

\* the places of the sources that are not empty
NonEmptySources == {i \in 1..4 : SourceValues[i] # ""}

\* C27: the key is made of the first source that is not empty, in the order
\* APIKey, APIKeyParameter, MACKEREL_APIKEY, MACKEREL_APIKEY_PARAMETER: the
\* sources after it are not read and no service is called for them; when all
\* four are empty the call returns an error. When the call returns a key, it
\* is that source's string as it is, its KMS plaintext, or the parameter of
\* that name.
C27_FirstNonEmptySourceWins ==
    call.op = "apiKey" =>
        LET r == call.result
        IN IF NonEmptySources = {}
           THEN r.err /\ r.calls = <<>>
           ELSE LET first == CHOOSE i \in NonEmptySources :
                               \A j \in NonEmptySources : i <= j
                IN /\ r.reads = SubSeq(KeySources, 1, first)
                   /\ Len(r.calls) <= 1
                   /\ \A i \in 1..Len(r.calls) :
                        r.calls[i] = IF first \in {1, 3} THEN "kms" ELSE "ssm"
                   /\ ~r.err =>
                        /\ r.key.of = SourceValues[first]
                        /\ r.key.from = "ssm" <=> first \in {2, 4}

\* all four sources are set: the key is the APIKey field as it is
C27_Witness ==
    /\ call.op = "apiKey"
    /\ NonEmptySources = 1..4
    /\ ~call.result.err
    /\ call.result.key = [from |-> "plain", of |-> call.f.APIKey,
                          decrypt |-> FALSE]
    /\ call.result.reads = <<"APIKey">>

\* the concurrent invocations at one of the places pcs
At(pcs) == {i \in DOMAIN invs : invs[i].pc \in pcs}

\* C28: an invocation calls apiKey only while the Forwarder has no client,
\* that is while no call of apiKey has returned a key, and with f.mu held;
\* at no time are two invocations in apiKey.
C28_ResolvesOnceOneAtATime ==
    /\ Cardinality(At({"apiKey"})) <= 1
    /\ \A i \in At({"apiKey"}) : ~svcmackerel.set /\ mu = {i}
    /\ \A i \in DOMAIN invs :
         (invs[i].resolved /\ invs[i].pc # "apiKey" /\ invs[i].err = NilError)
            => svcmackerel.set

\* a caller's second invocation has the client of an earlier one and has
\* not called apiKey, while another invocation waits for the pending lock
C28_Witness ==
    \E i, j \in DOMAIN invs :
       /\ i # j
       /\ invs[i].n = 2
       /\ invs[i].pc = "fetch"
       /\ ~invs[i].resolved
       /\ svcmackerel.set
       /\ invs[j].pc = "pending"
       /\ ~invs[j].resolved

\* C29: at no time are two invocations between the read of the pending
\* collections and the write of the next ones; the invocation that is there
\* holds f.muPending, and the pending service metrics are what it read and
\* made of them since: no other invocation has written them in between.
C29_OneInvocationOwnsPending ==
    /\ Cardinality(At({"fetch", "write"})) <= 1
    /\ \A i \in At({"fetch", "write"}) :
         /\ muPending = "held"
         /\ invs[i].base = pendingServiceMetrics
    /\ At({"fetch", "write"}) = {} => muPending = "free"

\* an invocation is about to write, with the value another invocation left
\* pending replaced by its own, while that other invocation waits for the
\* lock again
C29_Witness ==
    \E i, j \in DOMAIN invs :
       /\ i # j
       /\ invs[i].pc = "write"
       /\ invs[j].pc = "pending"
       /\ invs[j].n = 2
       /\ SvcA \in DOMAIN invs[i].working
       /\ invs[i].working[SvcA][1].Value = i

\* the failure accumulator of the invocation
FailedAccumulator == <<fctx.failedServiceMetrics, fctx.failedHostMetrics>>

\* C30: while the delivery tasks run, a step that changes the failure
\* accumulator is the step of a task that holds fctx.mu, alone; and when
\* the tasks have all ended and the invocation goes on, the accumulator
\* holds the batch of every service whose task failed, the host batch when
\* the host task failed, and nothing else: what it holds depends on which
\* tasks failed and not on the order of their steps.
C30_AccumulatorLockedAndExact ==
    [][/\ (inv.pc = "wait" /\ FailedAccumulator' # FailedAccumulator) =>
            \E d \in DOMAIN tasks :
               /\ fctx.mu = {d}
               /\ tasks[d].pc = "save"
               /\ tasks[d].outcome = "failed"
               /\ \A e \in DOMAIN tasks \ {d} : tasks'[e] = tasks[e]
       /\ (inv.pc = "wait" /\ inv'.pc = "returned") =>
            /\ fctx.mu = {}
            /\ fctx.failedServiceMetrics
                 = [s \in {t \in DOMAIN fctx.serviceMetrics :
                             tasks[ServiceTask(t)].outcome = "failed"} |->
                      fctx.serviceMetrics[s]]
            /\ fctx.failedHostMetrics
                 = IF HostTask \in DOMAIN tasks
                      /\ tasks[HostTask].outcome = "failed"
                   THEN fctx.hostMetrics ELSE <<>>]_vars

\* three tasks have ended, those of service a and of the hosts failed and
\* that of service b did not: the accumulator holds the two failed batches
C30_Witness ==
    /\ inv.pc = "wait"
    /\ DOMAIN tasks = AllTasks
    /\ \A d \in AllTasks : tasks[d].pc = "done"
    /\ tasks[ServiceTask(SvcA)].outcome = "failed"
    /\ tasks[ServiceTask(SvcB)].outcome = "ok"
    /\ tasks[HostTask].outcome = "failed"
    /\ DOMAIN fctx.failedServiceMetrics = {SvcA}
    /\ fctx.failedHostMetrics = fctx.hostMetrics

\* C31: an invocation that has returned from the delivery has no goroutine
\* that has not ended; and every invocation that has been started returns,
\* whatever the other invocations do, when the calls it waits for return
\* and the locks are handed on.
C31_JoinsAndReturns ==
    /\ [](\A i \in DOMAIN invs :
            (invs[i].pc = "returned" /\ invs[i].err = NilError) =>
              /\ \A d \in DOMAIN invs[i].tasks : invs[i].tasks[d].pc = "done"
              /\ invs[i].fmu = {})
    /\ \A i \in 1..MaxConcurrent :
         (invs[i].pc \notin {"idle", "returned"})
            ~> (invs[i].pc = "returned")

\* both goroutines of an invocation wait for fctx.mu or hold it, while
\* another invocation waits for the pending lock
C31_Witness ==
    \E i, j \in DOMAIN invs :
       /\ i # j
       /\ invs[i].pc = "write"
       /\ DOMAIN invs[i].tasks = ConcurrentTasks
       /\ invs[i].tasks[ServiceTask(SvcA)].pc = "save"
       /\ invs[i].tasks[ServiceTask(SvcB)].pc = "lock"
       /\ invs[j].pc = "pending"

\* C32: while publishMetric runs and after it, there is exactly one
\* goroutine per service of the working set and none for any other service,
\* a host goroutine exactly when the working set has host values, every
\* goroutine has made at most one Post call, and the call it made carried
\* the whole collection of its destination
C32_OneCallPerDestinationWholeBatch ==
    (inv.pc = "wait" \/ Delivered) =>
      /\ DOMAIN tasks =
           {ServiceTask(s) : s \in DOMAIN fctx.serviceMetrics}
           \cup (IF fctx.hostMetrics # <<>> THEN {HostTask} ELSE {})
      /\ \A d \in DOMAIN tasks :
           /\ tasks[d].calls = IF tasks[d].pc = "post" THEN 0 ELSE 1
           /\ tasks[d].calls = 1 =>
                tasks[d].posted = IF d.kind = "service"
                                  THEN fctx.serviceMetrics[d.service]
                                  ELSE fctx.hostMetrics

\* a second invocation posted, in one call, a service batch holding a
\* carried-over value and a fresh one, and started no host goroutine
C32_Witness ==
    /\ inv.pc = "wait"
    /\ inv.n = 2
    /\ fctx.hostMetrics = <<>>
    /\ \E s \in DOMAIN fctx.serviceMetrics :
         /\ tasks[ServiceTask(s)].calls = 1
         /\ Len(tasks[ServiceTask(s)].posted) = 2
         /\ \E i, j \in 1..2 :
              /\ tasks[ServiceTask(s)].posted[i].Time < fctx.start
              /\ tasks[ServiceTask(s)].posted[j].Time >= fctx.start

\* no two entries of a service map share a service and a (Name, Time)
UniqueServiceKeys(m) ==
    \A s \in DOMAIN m : \A i, j \in 1..Len(m[s]) :
       (m[s][i].Name = m[s][j].Name /\ m[s][i].Time = m[s][j].Time) => i = j

\* no two entries of a host slice share a (HostID, Name, Time)
UniqueHostKeys(h) ==
    \A i, j \in 1..Len(h) :
       (/\ h[i].HostID = h[j].HostID
        /\ h[i].Name = h[j].Name
        /\ h[i].Time = h[j].Time) => i = j

\* C33: the working set, the failure accumulator and the pending buffer of
\* the invocations, and the collections the Append and Drop calls are made
\* on, never hold two entries with the same (name, time) in one service
\* collection or with the same (hostId, name, time) in the host collection
C33_KeysStayUnique ==
    /\ UniqueServiceKeys(fctx.serviceMetrics)
    /\ UniqueServiceKeys(fctx.failedServiceMetrics)
    /\ UniqueServiceKeys(pendingServiceMetrics)
    /\ UniqueServiceKeys(BufferServices)
    /\ UniqueHostKeys(fctx.hostMetrics)
    /\ UniqueHostKeys(fctx.failedHostMetrics)
    /\ UniqueHostKeys(pendingHostMetrics)
    /\ UniqueHostKeys(BufferHosts)

\* the second invocation fetched a host value whose key is that of a value
\* carried over from the first, and the working set holds the key once
C33_Witness ==
    /\ inv.n = 2
    /\ inv.pc = "fetch"
    /\ inv.seen # {}
    /\ Len(pendingHostMetrics) = 1
    /\ pendingHostMetrics[1].Time = fctx.start
    /\ Len(fctx.hostMetrics) = 1
    /\ fctx.hostMetrics[1].Time = fctx.start
    /\ fctx.hostMetrics[1].Value = 2
    /\ DOMAIN fctx.serviceMetrics = {}

\* no service key of the map is associated with an empty slice
NoEmptyService(m) == \A s \in DOMAIN m : m[s] # <<>>

\* C34: the map serviceMetricsType.Drop leaves holds no service with an
\* empty collection, and the pending buffer never holds a service with an
\* empty collection
C34_NoEmptyServiceEntry ==
    /\ call.op = "ServiceDrop" => NoEmptyService(call.services)
    /\ NoEmptyService(pendingServiceMetrics)

\* a Drop removed every entry of one service, whose key is gone, and kept
\* the other service with the entries it left it
C34_Witness ==
    /\ call.op = "ServiceDrop"
    /\ call.cnt > 0
    /\ \E s, t \in DOMAIN call.servicesBefore :
         /\ s \notin DOMAIN call.services
         /\ KeepFrom(call.servicesBefore[s], call.unix) = <<>>
         /\ t \in DOMAIN call.services
         /\ call.services[t] # <<>>

\* an invocation whose delivery to one service failed has returned, and
\* the pending buffer holds that service's values
C34_PendingWitness ==
    /\ Delivered
    /\ DOMAIN pendingServiceMetrics # {}
    /\ DOMAIN pendingServiceMetrics # DOMAIN fctx.serviceMetrics

\* the rows of a page whose label does not decode
BadRows(page) == {k \in 1..Len(page) : ParseLabel(page[k].label).err}

\* the page loop is at a page with such a row, and NextPage returns it
AtBadPage ==
    /\ inv.pc = "fetch"
    /\ inv.more
    /\ BadRows(ScriptedPage) # {}

\* C35: when NextPage returns a page with a row whose label does not
\* decode, getMetricsData returns the decode error at once, whether or not
\* there are more pages; the working set is then what the rows before that
\* row made of it, so no later row has been processed, and every value that
\* was in the working set before the page is still there
C35_DecodeErrorReturnsAtOnce ==
    [][(AtBadPage /\ inv'.err.kind \notin {"retrieval", "context"}) =>
         LET k == FirstIndex(BadRows(ScriptedPage))
             before == ProcessRows(Accumulator, SubSeq(ScriptedPage, 1, k - 1))
         IN /\ inv'.pc = "publish"
            /\ inv'.err = ErrorValue("label", 0, "", FALSE)
            /\ fctx'.serviceMetrics = before.serviceMetrics
            /\ fctx'.hostMetrics = before.hostMetrics
            /\ ServiceKeys(fctx.serviceMetrics)
                 \subseteq ServiceKeys(fctx'.serviceMetrics)
            /\ HostKeys(fctx.hostMetrics) \subseteq HostKeys(fctx'.hostMetrics)
      ]_vars

\* the first page brought a service value; on the second page a row that
\* does not decode came before a host row with a value: the fetch has
\* returned the decode error, the service value is in the working set and
\* the host value is not
C35_Witness ==
    /\ call.op = "pages"
    /\ Len(call.pages) = 2
    /\ Len(call.pages[1]) = 1
    /\ call.pages[1][1].label = LabelString(Label(SvcA, <<>>, MetricM))
    /\ call.pages[1][1].points # <<>>
    /\ Len(call.pages[2]) = 2
    /\ call.pages[2][1].label = <<"x">>
    /\ call.pages[2][2].label = LabelString(Label(<<>>, HostH, MetricM))
    /\ call.pages[2][2].points # <<>>
    /\ inv.pc = "publish"
    /\ inv.err = ErrorValue("label", 0, "", FALSE)
    /\ DOMAIN fctx.serviceMetrics = {SvcA}
    /\ fctx.hostMetrics = <<>>

\* some row of some page of the script carries label string l with a
\* datapoint
HasData(l) ==
    \E p \in 1..Len(call.pages) : \E k \in 1..Len(call.pages[p]) :
       /\ call.pages[p][k].label = l
       /\ call.pages[p][k].points # <<>>

\* C36: when the defaults loop runs, a label with a default that came with
\* a datapoint in some row of some page keeps the entries the pages gave
\* it: the collection of its destination is left as it was, and none of
\* its entries at the window start carries the default value
C36_SeenLabelGetsNoDefault ==
    [][(inv.pc = "fetch" /\ ~inv.more /\ inv'.pc = "publish") =>
         \A l \in DOMAIN inv.defaults :
           HasData(l) =>
             LET label == ParseLabel(l).label
                 before == WorkingOf(fctx, label)
                 after == WorkingOf(fctx', label)
             IN /\ after = before
                /\ PlacesOf(after, label, fctx.start) # {}
                /\ \A i \in PlacesOf(after, label, fctx.start) :
                     after[i].Value # inv.defaults[l]]_vars

\* the host label has a default; the first page brought its datapoint after
\* an empty row of it, the second page two empty rows of it; the fetch is
\* over without error and the working set holds the datapoint
C36_Witness ==
    /\ call.op = "pages"
    /\ inv.pc = "publish"
    /\ inv.err = NilError
    /\ DOMAIN call.defaults = {LabelString(Label(<<>>, HostH, MetricM))}
    /\ Len(call.pages) = 2
    /\ \A p, k \in 1..2 :
         /\ Len(call.pages[p]) = 2
         /\ call.pages[p][k].label = LabelString(Label(<<>>, HostH, MetricM))
         /\ call.pages[p][k].points # <<>> <=> (p = 1 /\ k = 2)
    /\ Len(fctx.hostMetrics) = 1
    /\ fctx.hostMetrics[1].Value # DefaultValue

\* C37: when getMetricsData returns an error, be it the error of NextPage
\* or the decode error of a row's label, the working set holds no entry
\* with the default value for any label with a default, the labels that
\* had no datapoint on the pages read so far included
C37_AbortedFetchNoDefault ==
    [][(inv.pc = "fetch" /\ inv'.err # NilError) =>
         /\ inv'.pc = "publish"
         /\ \A l \in DOMAIN inv.defaults :
              LET label == ParseLabel(l).label
                  after == WorkingOf(fctx', label)
              IN \A i \in PlacesOf(after, label, fctx.start) :
                   after[i].Value # inv.defaults[l]]_vars

\* service a has a default and no datapoint: the first page brought a host
\* value, the fetch was then aborted by a retrieval error, and the working
\* set holds the host value and nothing for service a
C37_Witness ==
    /\ call.op = "pages"
    /\ DOMAIN call.defaults = {LabelString(Label(SvcA, <<>>, MetricM))}
    /\ ~HasData(LabelString(Label(SvcA, <<>>, MetricM)))
    /\ inv.pc = "publish"
    /\ inv.err = ErrorValue("retrieval", 0, "", FALSE)
    /\ Len(fctx.hostMetrics) = 1
    /\ DOMAIN fctx.serviceMetrics = {}

\* the same default, and the fetch was aborted by a row that does not
\* decode on the second page
C37_DecodeWitness ==
    /\ call.op = "pages"
    /\ DOMAIN call.defaults = {LabelString(Label(SvcA, <<>>, MetricM))}
    /\ Len(call.pages) = 2
    /\ BadRows(call.pages[1]) = {}
    /\ inv.pc = "publish"
    /\ inv.err = ErrorValue("label", 0, "", FALSE)
    /\ DOMAIN fctx.serviceMetrics = {}

\* a list without its p-th member
RemoveAt(seq, p) == SubSeq(seq, 1, p - 1) \o SubSeq(seq, p + 1, Len(seq))

\* the queries of a result, apart from their ids
ApartFromIds(ret) == [k \in 1..Len(ret) |-> [ret[k] EXCEPT !.Id = <<>>]]

\* the places in the list of the specs that are skipped
SkippedIn(query) == (1..Len(query)) \ Emitting(query)

\* in each of the service, host and stat slots, the p-th spec gives "." or
\* the spec after it does not
NotRepeatedByNext(query, p) ==
    p < Len(query) =>
      /\ query[p].Service = Dot \/ query[p + 1].Service # Dot
      /\ query[p].Host = Dot \/ query[p + 1].Host # Dot
      /\ query[p].Stat = Dot \/ query[p + 1].Stat # Dot

\* C38, as claimed: when ToMetricDataQuery returns for a list and for the
\* list without one of its skipped specs, the two results hold the same
\* queries apart from their ids.
C38_SkippedSpecHasNoEffect ==
    call.op = "ToMetricDataQuery" =>
      \A p \in SkippedIn(call.in) :
        LET without == ToMetricDataQuery(RemoveAt(call.in, p))
        IN (~call.out.panic /\ ~without.panic) =>
             ApartFromIds(without.ret) = ApartFromIds(call.out.ret)

\* C38: when ToMetricDataQuery returns for a list with a skipped spec whose
\* service, host and stat tokens are each "." or not followed by a "." of
\* the next spec in the same slot, it returns for the list without that
\* spec too, with the same queries apart from their ids: the metric tokens
\* of a skipped spec are not remembered.
C38_SkippedSpecLeavesMetricSlots ==
    (call.op = "ToMetricDataQuery" /\ ~call.out.panic) =>
      \A p \in SkippedIn(call.in) :
        NotRepeatedByNext(call.in, p) =>
          LET without == ToMetricDataQuery(RemoveAt(call.in, p))
          IN /\ ~without.panic
             /\ ApartFromIds(without.ret) = ApartFromIds(call.out.ret)

\* between two specs for services, a spec with both destinations and
\* metric tokens of its own is skipped; the third spec repeats namespace and
\* metric name, and gets those of the first
C38_Witness ==
    /\ call.op = "ToMetricDataQuery"
    /\ Len(call.in) = 3
    /\ SkippedIn(call.in) = {2}
    /\ NotRepeatedByNext(call.in, 2)
    /\ call.in[1].Metric = <<<<"n">>, <<"x">>>>
    /\ call.in[2].Metric = <<<<"o">>, <<"y">>, <<"d">>, <<"v">>>>
    /\ call.in[2].Service # <<>>
    /\ call.in[2].Host # <<>>
    /\ call.in[3].Metric = <<Dot, Dot>>
    /\ ~call.out.panic
    /\ Len(call.out.ret) = 2
    /\ call.out.ret[2].Namespace = <<"n">>
    /\ call.out.ret[2].MetricName = <<"x">>

\* C39, as claimed: ToMetricDataQuery completes for every list of specs,
\* those with more than 22 metric tokens included: it makes no access to
\* the slot table outside 0..21.
C39_SlotTableInRange ==
    call.op = "ToMetricDataQuery" => ~call.out.panic

\* what the code does: it completes exactly when no spec with one
\* destination has more than 23 metric tokens
C39_PanicsFromTwelfthPair ==
    call.op = "ToMetricDataQuery" =>
      (call.out.panic <=>
         \E i \in Emitting(call.in) :
            Len(call.in[i].Metric) > MetricSlots + 1)

\* a spec with one destination and 23 tokens was compiled: the odd last
\* token is left out and the query has 10 dimensions
C39_Witness ==
    /\ call.op = "ToMetricDataQuery"
    /\ Len(call.in) = 1
    /\ Len(call.in[1].Metric) = MetricSlots + 1
    /\ ~call.out.panic
    /\ Len(call.out.ret) = 1
    /\ Len(call.out.ret[1].Dimensions) * 2 = MetricSlots - 2

\* C40, as claimed: with an APIURL that url.Parse rejects, no invocation
\* gets past f.mackerel: every invocation whose payload parses returns the
\* configuration error, and no goroutine ever makes a Post call.
C40_InvalidURLFailsEveryInvocation ==
    APIURL = "invalid" =>
      /\ inv.pc \in {"idle", "config", "returned"}
      /\ inv.pc = "returned" => inv.exit \in {"parse", "config"}
      /\ \A d \in DOMAIN tasks : tasks[d].calls = 0

\* what the code does: the first invocation that finds a key stores the
\* client and fails; a later invocation finds the stored client, whose
\* BaseURL is the default one, and posts to it
C40_PostedToDefaultURL ==
    /\ APIURL = "invalid"
    /\ inv.n = 2
    /\ svcmackerel = [set |-> TRUE, BaseURL |-> "default"]
    /\ \E d \in DOMAIN tasks : tasks[d].calls = 1

====
